-------------------------- MODULE BlockTable_proofs --------------------------
(***************************************************************************)
(* Proofs about BlockTable for any files, tables and sizes of a table.     *)
(*                                                                         *)
(* What is kept in memory (last, free) is related to the tables without    *)
(* the scan that _os_ValidateBAT does, and the disk to the tables that are *)
(* not marked: a reload puts those back.  Behind that, what a reader meets *)
(* in a file is shown to be the chain of the blocks the file owns.         *)
(***************************************************************************)
EXTENDS BlockTable, FiniteSetTheorems, SequenceTheorems, TLAPS

\* The marker of a kind is the last used place in the last table of that kind,
\* there is no other marker, and nothing behind it was ever used.
MarkersAreLast ==
    /\ \A k \in Kinds : kind[TableOf(last[k])] = k /\ bat[last[k]] = EOBBLOCK
    /\ \A b \in Block : bat[b] = EOBBLOCK => \E k \in Kinds : b = last[k]
    /\ \A k \in Kinds, b \in Block : kind[TableOf(b)] = k /\ b > last[k] =>
        /\ TableOf(b) = TableOf(last[k])
        /\ bat[b] = Free

\* A volume has its tables one after the other, without a gap.
NewTablesAreFree ==
    /\ \A t \in Table : kind[t] = "none" <=> \A k \in Kinds : t > TableOf(last[k])
    /\ \A b \in Block : kind[TableOf(b)] = "none" => bat[b] = Free

\* The lists hold every free block before the marker.
FreeIsListed ==
    \A k \in Kinds :
        free[k] = {b \in Block : kind[TableOf(b)] = k /\ b < last[k] /\ bat[b] = Free}

\* A table that is not marked differs from the disk only in blocks that were freed
\* by a truncate: not in a marker, and not behind one.
UnmarkedIsOnDisk ==
    \A b \in Block : TableOf(b) \notin dirty =>
        /\ bat[b] # Free => disk.bat[b] = bat[b]
        /\ disk.bat[b] = EOBBLOCK => bat[b] = EOBBLOCK
        /\ kind[TableOf(b)] = "none" \/ (\E k \in Kinds : kind[TableOf(b)] = k /\ b > last[k])
              => disk.bat[b] = Free

\* An operation works on a file and has reached a block of it.
StepIsSane ==
    /\ step # "idle" => file \in Files
    /\ step \in {"shrink", "unlink"} => cur # EOFBLOCK
    /\ step \in {"truncated", "unlink"} => first[file] = EOFBLOCK
    /\ step = "truncated" => cur = EOFBLOCK
    /\ step = "write" => cur \in Block /\ owner[cur] = file /\ bat[cur] = EOFBLOCK

IInv ==
    /\ TypeOK
    /\ MarkersAreLast
    /\ NewTablesAreFree
    /\ FreeIsListed
    /\ UnmarkedIsOnDisk
    /\ StepIsSane
    /\ OwnedIsUsed
    /\ ChainsAreSeparate

-----------------------------------------------------------------------------
\* Every block has a table, and blocks go up with their tables.
LEMMA Blocks ==
    /\ \A b \in Block : b \in Nat /\ TableOf(b) \in Table
    /\ \A b, c \in Block : b <= c => TableOf(b) <= TableOf(c)
    /\ \A t \in Table : PerBat * t \in Block /\ TableOf(PerBat * t) = t
BY SizeAssumption DEF Block, Table, TableOf

\* The block behind one that is not the last of its table is in the same table.
LEMMA NextInTable ==
    ASSUME NEW b \in Block, b % PerBat < PerBat - 1
    PROVE  b + 1 \in Block /\ TableOf(b + 1) = TableOf(b)
<1>1. PICK q \in Nat, r \in 0 .. PerBat - 1 : b = PerBat * q + r /\ TableOf(b) = q /\ b % PerBat = r
    BY SizeAssumption DEF Block, TableOf
<1>2. r + 1 \in 0 .. PerBat - 1 /\ b + 1 = PerBat * q + (r + 1) BY <1>1, SizeAssumption
<1>3. TableOf(b + 1) = q BY <1>1, <1>2, SizeAssumption DEF TableOf
<1>4. q \in Table BY <1>1, Blocks
<1>5. PerBat * q + PerBat <= PerBat * Tables BY <1>4, SizeAssumption DEF Table
<1>6. b + 1 <= PerBat * Tables - 1 BY <1>2, <1>5, SizeAssumption
<1> QED BY <1>1, <1>3, <1>6, SizeAssumption DEF Block

\* The blocks behind the last one of a table are in later tables, and those of later
\* tables behind it.
LEMMA LastInTable ==
    ASSUME NEW b \in Block, b % PerBat = PerBat - 1, NEW c \in Block
    PROVE  b < c <=> TableOf(b) < TableOf(c)
<1>1. PICK q \in Nat : b = PerBat * q + (PerBat - 1) /\ TableOf(b) = q
    BY SizeAssumption DEF Block, TableOf
<1>2. PICK p \in Nat, r \in 0 .. PerBat - 1 : c = PerBat * p + r /\ TableOf(c) = p
    BY SizeAssumption DEF Block, TableOf
<1>3. q < p => PerBat * q + PerBat <= PerBat * p BY SizeAssumption
<1>4. p <= q => PerBat * p <= PerBat * q BY SizeAssumption
<1> QED BY <1>1, <1>2, <1>3, <1>4, SizeAssumption

\* The blocks of a table are those between its first and its last one.
LEMMA BlocksOfTable ==
    ASSUME NEW b \in Block, NEW c \in Block
    PROVE  c \in BlocksOf(TableOf(b)) <=> TableOf(c) = TableOf(b)
<1>1. PICK q \in Nat, r \in 0 .. PerBat - 1 : b = PerBat * q + r /\ TableOf(b) = q
    BY SizeAssumption DEF Block, TableOf
<1>2. PICK p \in Nat, s \in 0 .. PerBat - 1 : c = PerBat * p + s /\ TableOf(c) = p
    BY SizeAssumption DEF Block, TableOf
<1>3. q < p => PerBat * q + PerBat <= PerBat * p BY SizeAssumption
<1>4. p < q => PerBat * p + PerBat <= PerBat * q BY SizeAssumption
<1> QED BY <1>1, <1>2, <1>3, <1>4, SizeAssumption DEF BlocksOf

-----------------------------------------------------------------------------
\* The numbers of the volume's own blocks are the only small ones, so an entry that
\* leads to another block is not mistaken for Free or EOBBLOCK.
LEMMA SystemBlocks ==
    /\ System \subseteq Block
    /\ \A b \in Block \ System : b # Free /\ b # EOBBLOCK /\ b # EOFBLOCK
BY SizeAssumption DEF System, Block, Free, EOBBLOCK, EOFBLOCK

LEMMA InitInv == Init => IInv
<1> SUFFICES ASSUME Init PROVE IInv
    OBVIOUS
<1>1. /\ PerBat \in Nat /\ PerBat > 4 /\ Tables \in Nat /\ Tables > 1
      /\ PerBat * 2 <= PerBat * Tables
    BY SizeAssumption
<1>2. 0 \in Table /\ 1 \in Table BY <1>1 DEF Table
<1>3. 4 \in Block /\ PerBat + 1 \in Block /\ PerBat \in Block BY <1>1 DEF Block
<1>4. TableOf(4) = 0 /\ TableOf(PerBat + 1) = 1 BY <1>1 DEF TableOf
<1>5. \A b \in Block : TableOf(b) = 0 <=> b < PerBat
    <2> SUFFICES ASSUME NEW b \in Block PROVE TableOf(b) = 0 <=> b < PerBat
        OBVIOUS
    <2>1. PICK q \in Nat, r \in 0 .. PerBat - 1 : b = PerBat * q + r /\ TableOf(b) = q
        BY SizeAssumption DEF Block, TableOf
    <2>2. q >= 1 => PerBat * q >= PerBat BY <1>1
    <2> QED BY <2>1, <2>2, <1>1
<1>6. TypeOK
    BY <1>1, <1>3, BoundAssumption, FilesAssumption DEF Init, TypeOK, Steps, Kinds, Table, Free, EOBBLOCK, EOFBLOCK,
       Block
<1>7. MarkersAreLast
    BY <1>1, <1>2, <1>3, <1>4, <1>5, Blocks DEF Init, MarkersAreLast, Kinds, System, Free, EOBBLOCK, EOFBLOCK
<1>8. NewTablesAreFree
    BY <1>1, <1>2, <1>3, <1>4, <1>5, Blocks DEF Init, NewTablesAreFree, Kinds, System, Table, Free, EOBBLOCK, EOFBLOCK
<1>9. FreeIsListed
    <2> SUFFICES ASSUME NEW k \in Kinds, NEW b \in Block, kind[TableOf(b)] = k, b < last[k]
                 PROVE  bat[b] # Free
        BY DEF Init, FreeIsListed
    <2>1. TableOf(b) \in Table BY Blocks
    <2>2. CASE k = "large"
        <3>1. b \in 0 .. 3 BY <2>2 DEF Init, Block, Kinds
        <3> QED BY <3>1 DEF Init, System, Free, EOFBLOCK
    <2>3. CASE k = "small"
        <3>1. TableOf(b) = 1 BY <2>1, <2>3 DEF Init
        <3>2. b = PerBat BY <3>1, <2>3, <1>1, <1>5 DEF Init, Block, Kinds
        <3> QED BY <3>2 DEF Init, System, Free, EOFBLOCK
    <2> QED BY <2>2, <2>3 DEF Kinds
<1>10. UnmarkedIsOnDisk
    BY <1>7, <1>8 DEF Init, UnmarkedIsOnDisk, MarkersAreLast, NewTablesAreFree
<1>11. OwnedIsUsed /\ ChainsAreSeparate /\ StepIsSane
    BY SystemBlocks, FilesAssumption DEF Init, OwnedIsUsed, ChainsAreSeparate, StepIsSane, Owned, HeadOf, Free, EOBBLOCK, EOFBLOCK,
       System
<1> QED BY <1>6, <1>7, <1>8, <1>9, <1>10, <1>11 DEF IInv

-----------------------------------------------------------------------------
\* The parts of the invariant that are about the allocator.
Allocator == MarkersAreLast /\ NewTablesAreFree /\ FreeIsListed /\ UnmarkedIsOnDisk

\* What _os_GetFreeBlock_ may link: nothing, or the last block of a file.
CanLink(prev) == prev # EOFBLOCK => prev \in Owned /\ bat[prev] = EOFBLOCK

\* A block that is handed out was free or the marker, so no file had it.
LEMMA TakenBlock ==
    ASSUME IInv, NEW k \in Kinds, NEW b \in Block, NEW prev \in Block \cup {EOFBLOCK},
           GetFreeBlock(k, prev, b)
    PROVE  /\ bat[b] \in {Free, EOBBLOCK}
           /\ b \notin Owned \cup System
<1>1. bat[b] \in {Free, EOBBLOCK}
    BY DEF IInv, FreeIsListed, MarkersAreLast, GetFreeBlock, TakeFreed, TakeMarked, TakeLastOfTable
<1> QED BY <1>1 DEF IInv, OwnedIsUsed

\* What a step does to marked tables does not matter.
LEMMA UnmarkedStays ==
    ASSUME UnmarkedIsOnDisk, disk' = disk,
           \A c \in Block : TableOf(c) \notin dirty' =>
               /\ TableOf(c) \notin dirty
               /\ bat'[c] = bat[c]
               /\ kind'[TableOf(c)] = kind[TableOf(c)]
               /\ \A k \in Kinds : kind[TableOf(c)] = k /\ c > last'[k] => c > last[k]
    PROVE  UnmarkedIsOnDisk'
BY DEF UnmarkedIsOnDisk

LEMMA AllocTakeFreed ==
    ASSUME IInv, NEW k \in Kinds, NEW b \in Block, NEW prev \in Block \cup {EOFBLOCK},
           CanLink(prev), TakeFreed(k, prev, b), disk' = disk
    PROVE  Allocator'
<1> USE Blocks DEF Allocator, IInv, TypeOK, TakeFreed, CanLink, Linked, Owned, Smudge
<1>0. b \notin Owned \cup System
    BY TakenBlock DEF GetFreeBlock
<1>1. \A c \in Block : bat'[c] = IF c = prev THEN b ELSE IF c = b THEN EOFBLOCK ELSE bat[c]
    BY <1>0 DEF EOFBLOCK, Block
<1>2. b # Free /\ b # EOBBLOCK /\ EOFBLOCK # Free /\ EOFBLOCK # EOBBLOCK /\ Free # EOBBLOCK
    BY <1>0, SystemBlocks DEF EOFBLOCK, Free, EOBBLOCK
<1>3. bat[b] = Free /\ kind[TableOf(b)] = k /\ b < last[k] BY DEF FreeIsListed
<1>4. prev \in Block => bat[prev] = EOFBLOCK BY DEF EOFBLOCK, Block
<1>5. MarkersAreLast' BY <1>1, <1>2, <1>3, <1>4 DEF MarkersAreLast, Kinds
<1>6. NewTablesAreFree' BY <1>1, <1>2, <1>3, <1>4 DEF NewTablesAreFree, Kinds
<1>7. FreeIsListed' BY <1>1, <1>2, <1>3, <1>4 DEF FreeIsListed, Kinds
<1>8. \A c \in Block : TableOf(c) \notin dirty' => TableOf(c) \notin dirty /\ c # b /\ c # prev
    BY DEF EOFBLOCK, Block
<1>9. UnmarkedIsOnDisk' BY <1>1, <1>8, UnmarkedStays
<1> QED BY <1>5, <1>6, <1>7, <1>9

LEMMA AllocTakeMarked ==
    ASSUME IInv, NEW k \in Kinds, NEW b \in Block, NEW prev \in Block \cup {EOFBLOCK},
           CanLink(prev), TakeMarked(k, prev, b), disk' = disk
    PROVE  Allocator'
<1> USE Blocks DEF Allocator, IInv, TypeOK, TakeMarked, CanLink, Linked, Owned, Smudge
<1>0. b \notin Owned \cup System
    BY TakenBlock DEF GetFreeBlock
<1>1. b + 1 \in Block /\ TableOf(b + 1) = TableOf(b) /\ b = last[k]
    BY NextInTable
<1>2. kind[TableOf(b)] = k /\ bat[b + 1] = Free /\ b + 1 > b
    BY <1>1 DEF MarkersAreLast
<1>3. b # Free /\ b # EOBBLOCK /\ EOFBLOCK # Free /\ EOFBLOCK # EOBBLOCK /\ Free # EOBBLOCK
    BY <1>0, SystemBlocks DEF EOFBLOCK, Free, EOBBLOCK
<1>4. prev \in Block => bat[prev] = EOFBLOCK BY DEF EOFBLOCK, Block
<1>5. \A c \in Block : bat'[c] = IF c = prev THEN b ELSE IF c = b + 1 THEN EOBBLOCK
                                  ELSE IF c = b THEN EOFBLOCK ELSE bat[c]
    BY <1>0, <1>1, <1>2, <1>3, <1>4 DEF EOFBLOCK, Block
<1>6. \A j \in Kinds : last'[j] = IF j = k THEN b + 1 ELSE last[j] OBVIOUS
<1>7. MarkersAreLast'
    <2>1. \A j \in Kinds : kind'[TableOf(last'[j])] = j /\ bat'[last'[j]] = EOBBLOCK
        BY <1>1, <1>2, <1>3, <1>4, <1>5, <1>6 DEF MarkersAreLast
    <2>2. \A c \in Block : bat'[c] = EOBBLOCK => \E j \in Kinds : c = last'[j]
        BY <1>1, <1>3, <1>5, <1>6 DEF MarkersAreLast
    <2>3. \A j \in Kinds, c \in Block : kind'[TableOf(c)] = j /\ c > last'[j] =>
              TableOf(c) = TableOf(last'[j]) /\ bat'[c] = Free
        BY <1>1, <1>2, <1>3, <1>4, <1>5, <1>6 DEF MarkersAreLast
    <2> QED BY <2>1, <2>2, <2>3 DEF MarkersAreLast
<1>8. NewTablesAreFree'
    BY <1>1, <1>2, <1>3, <1>4, <1>5, <1>6 DEF NewTablesAreFree, Kinds
<1>9. FreeIsListed'
    <2> SUFFICES ASSUME NEW j \in Kinds
                 PROVE  free[j] = {c \in Block : kind[TableOf(c)] = j /\ c < last'[j] /\ bat'[c] = Free}
        BY DEF FreeIsListed
    <2>1. \A c \in Block : kind[TableOf(c)] = j =>
              (c < last'[j] /\ bat'[c] = Free <=> c < last[j] /\ bat[c] = Free)
        <3> SUFFICES ASSUME NEW c \in Block, kind[TableOf(c)] = j
                     PROVE  c < last'[j] /\ bat'[c] = Free <=> c < last[j] /\ bat[c] = Free
            OBVIOUS
        <3>1. CASE j # k BY <3>1, <1>1, <1>2, <1>3, <1>4, <1>5, <1>6
        <3>2. CASE j = k
            <4>1. c < b + 1 <=> c = b \/ c < b BY DEF Block
            <4> QED BY <4>1, <3>2, <1>1, <1>3, <1>4, <1>5, <1>6
        <3> QED BY <3>1, <3>2
    <2> QED BY <2>1 DEF FreeIsListed
<1>10. \A c \in Block : TableOf(c) \notin dirty' =>
          TableOf(c) \notin dirty /\ c # b /\ c # b + 1 /\ c # prev
    BY <1>1 DEF EOFBLOCK, Block
<1>11. UnmarkedIsOnDisk' BY <1>1, <1>5, <1>6, <1>10, UnmarkedStays
<1> QED BY <1>7, <1>8, <1>9, <1>11

LEMMA MaxOfTwo ==
    ASSUME NEW x \in Int, NEW y \in Int
    PROVE  Max({x, y}) = IF x >= y THEN x ELSE y
<1>1. CASE x >= y
    <2>1. x \in {x, y} /\ \A z \in {x, y} : x >= z BY <1>1
    <2>2. \A w \in {x, y} : (\A z \in {x, y} : w >= z) => w = x BY <1>1
    <2> QED BY <1>1, <2>1, <2>2 DEF Max
<1>2. CASE ~(x >= y)
    <2>1. y \in {x, y} /\ \A z \in {x, y} : y >= z BY <1>2
    <2>2. \A w \in {x, y} : (\A z \in {x, y} : w >= z) => w = y BY <1>2
    <2> QED BY <1>2, <2>1, <2>2 DEF Max
<1> QED BY <1>1, <1>2

LEMMA FirstOfTable == \A c \in Block : c >= PerBat * TableOf(c)
<1> SUFFICES ASSUME NEW c \in Block PROVE c >= PerBat * TableOf(c)
    OBVIOUS
<1>1. PICK q \in Nat, r \in 0 .. PerBat - 1 : c = PerBat * q + r /\ TableOf(c) = q
    BY SizeAssumption DEF Block, TableOf
<1> QED BY <1>1, SizeAssumption

\* The table behind the last one is new, and all of it is free.
LEMMA NewTable ==
    ASSUME IInv, NEW k \in Kinds, NEW b \in Block, NEW prev \in Block \cup {EOFBLOCK},
           TakeLastOfTable(k, prev, b)
    PROVE  LET new == TableOf(Max({last["large"], last["small"]})) + 1
               begin == PerBat * new
           IN  /\ new \in Table /\ kind[new] = "none"
               /\ \A t \in Table : kind[t] = "none" <=> t >= new
               /\ begin \in Block /\ TableOf(begin) = new
               /\ \A c \in Block : TableOf(c) = new => c >= begin /\ bat[c] = Free
               /\ \A j \in Kinds : last[j] < begin
<1> DEFINE m == Max({last["large"], last["small"]})
<1> DEFINE new == TableOf(m) + 1
<1> USE Blocks DEF IInv, TypeOK
<1>1. last["large"] \in Block /\ last["small"] \in Block BY DEF Kinds
<1>2. m \in {last["large"], last["small"]} /\ m >= last["large"] /\ m >= last["small"]
    <2>1. last["large"] \in Int /\ last["small"] \in Int BY <1>1
    <2>2. m = IF last["large"] >= last["small"] THEN last["large"] ELSE last["small"]
        BY <2>1, MaxOfTwo
    <2> HIDE DEF m
    <2> QED BY <2>1, <2>2
<1>3. \A j \in Kinds : TableOf(last[j]) <= TableOf(m)
    BY <1>1, <1>2 DEF Kinds
<1>4. TableOf(m) \in Table /\ TableOf(m) \in Nat BY <1>1, <1>2 DEF Table
<1>5. new \in Table BY DEF TakeLastOfTable
<1>6. \A t \in Table : kind[t] = "none" <=> t >= new
    <2> SUFFICES ASSUME NEW t \in Table PROVE kind[t] = "none" <=> t >= new
        OBVIOUS
    <2>1. kind[t] = "none" <=> \A j \in Kinds : t > TableOf(last[j])
        BY DEF NewTablesAreFree
    <2>2. t \in Int /\ \A j \in Kinds : TableOf(last[j]) \in Int
        BY <1>1 DEF Kinds, Table
    <2>3. (\A j \in Kinds : t > TableOf(last[j])) => t > TableOf(m)
        <3>1. \E j \in Kinds : last[j] = m
            BY <1>2 DEF Kinds
        <3> QED BY <3>1
    <2>4. t > TableOf(m) => \A j \in Kinds : t > TableOf(last[j])
        <3> HIDE DEF m
        <3> QED BY <1>3, <1>4, <2>2
    <2>5. t > TableOf(m) <=> t >= new
        <3> HIDE DEF m
        <3> QED BY <1>4, <2>2
    <2> HIDE DEF m, new
    <2> QED BY <2>1, <2>3, <2>4, <2>5
<1>7. \A c \in Block : TableOf(c) = new => c >= PerBat * new
    BY FirstOfTable
<1>8. PerBat * new \in Block /\ TableOf(PerBat * new) = new BY <1>5
<1>9. \A j \in Kinds : last[j] < PerBat * new
    <2> SUFFICES ASSUME NEW j \in Kinds PROVE last[j] < PerBat * new
        OBVIOUS
    <2>1. TableOf(last[j]) <= TableOf(m) BY <1>3
    <2>2. last[j] \in Block /\ TableOf(last[j]) \in Table BY DEF Kinds
    <2>3. TableOf(last[j]) < new BY <2>1, <2>2, <1>4 DEF Table
    <2> HIDE DEF new
    <2>4. ~(PerBat * new <= last[j]) BY <1>8, <2>2, <2>3, <1>5 DEF Table
    <2> QED BY <2>2, <2>4, <1>8 DEF Block
<1>10. kind[new] = "none"
    <2>1. new >= new BY <1>4
    <2> HIDE DEF new
    <2> QED BY <1>5, <1>6, <2>1
<1>11. \A c \in Block : TableOf(c) = new => bat[c] = Free BY <1>10 DEF NewTablesAreFree
<1> HIDE DEF m
<1> QED BY <1>5, <1>6, <1>7, <1>8, <1>9, <1>10, <1>11 DEF m

LEMMA AllocTakeLastOfTable ==
    ASSUME IInv, NEW k \in Kinds, NEW b \in Block, NEW prev \in Block \cup {EOFBLOCK},
           CanLink(prev), TakeLastOfTable(k, prev, b), disk' = disk
    PROVE  Allocator'
<1> DEFINE new == TableOf(Max({last["large"], last["small"]})) + 1
<1> DEFINE begin == PerBat * new
<1>1. /\ new \in Table /\ kind[new] = "none"
      /\ \A t \in Table : kind[t] = "none" <=> t >= new
      /\ begin \in Block /\ TableOf(begin) = new
      /\ \A c \in Block : TableOf(c) = new => c >= begin /\ bat[c] = Free
      /\ \A j \in Kinds : last[j] < begin
    BY NewTable
<1>2. /\ b = last[k] /\ b % PerBat = PerBat - 1
      /\ bat' = Linked([bat EXCEPT ![b] = EOFBLOCK, ![begin] = EOBBLOCK], prev, b)
      /\ kind' = [kind EXCEPT ![new] = k]
      /\ last' = [last EXCEPT ![k] = begin]
      /\ Smudge({prev, b, begin})
      /\ free' = free
    BY DEF TakeLastOfTable
<1>3. b \notin Owned \cup System BY TakenBlock DEF GetFreeBlock
<1> HIDE DEF new, begin
<1> USE Blocks DEF Allocator, IInv, TypeOK, CanLink, Linked, Owned, Smudge
<1>4. kind[TableOf(b)] = k /\ bat[begin] = Free /\ TableOf(b) # new /\ begin # b
    BY <1>1, <1>2 DEF MarkersAreLast, Kinds
<1>5. b # Free /\ b # EOBBLOCK /\ EOFBLOCK # Free /\ EOFBLOCK # EOBBLOCK /\ Free # EOBBLOCK
    BY <1>3, SystemBlocks DEF EOFBLOCK, Free, EOBBLOCK
<1>6. prev \in Block => bat[prev] = EOFBLOCK BY DEF EOFBLOCK, Block
<1>7. \A c \in Block : bat'[c] = IF c = prev THEN b ELSE IF c = begin THEN EOBBLOCK
                                  ELSE IF c = b THEN EOFBLOCK ELSE bat[c]
    BY <1>1, <1>2, <1>3, <1>4, <1>5, <1>6 DEF EOFBLOCK, Block
<1>8. \A j \in Kinds : last'[j] = IF j = k THEN begin ELSE last[j] BY <1>2
<1>9. \A t \in Table : kind'[t] = IF t = new THEN k ELSE kind[t] BY <1>2
<1>10. \A c \in Block : kind[TableOf(c)] = k => c <= b
    <2> SUFFICES ASSUME NEW c \in Block, kind[TableOf(c)] = k, c > b PROVE FALSE
        BY DEF Block
    <2>1. TableOf(c) = TableOf(b) BY <1>2 DEF MarkersAreLast
    <2> QED BY <2>1, <1>2, LastInTable DEF Table
<1>11. MarkersAreLast'
    <2>1. \A j \in Kinds : kind'[TableOf(last'[j])] = j /\ bat'[last'[j]] = EOBBLOCK
        BY <1>1, <1>2, <1>4, <1>5, <1>6, <1>7, <1>8, <1>9 DEF MarkersAreLast
    <2>2. \A c \in Block : bat'[c] = EOBBLOCK => \E j \in Kinds : c = last'[j]
        BY <1>2, <1>5, <1>7, <1>8 DEF MarkersAreLast
    <2>3. \A j \in Kinds, c \in Block : kind'[TableOf(c)] = j /\ c > last'[j] =>
              TableOf(c) = TableOf(last'[j]) /\ bat'[c] = Free
        <3> SUFFICES ASSUME NEW j \in Kinds, NEW c \in Block, kind'[TableOf(c)] = j, c > last'[j]
                     PROVE  TableOf(c) = TableOf(last'[j]) /\ bat'[c] = Free
            OBVIOUS
        <3>1. CASE j # k
            <4>1. TableOf(c) # new /\ kind[TableOf(c)] = j /\ c > last[j] BY <3>1, <1>8, <1>9
            <4>2. TableOf(c) = TableOf(last[j]) /\ bat[c] = Free BY <4>1 DEF MarkersAreLast
            <4>3. c # begin /\ c # b /\ c # prev BY <3>1, <4>1, <4>2, <1>1, <1>4, <1>5, <1>6
            <4> QED BY <3>1, <4>2, <4>3, <1>7, <1>8
        <3>2. CASE j = k
            <4>1. c > begin BY <3>2, <1>8
            <4>2. c > b BY <4>1, <1>1, <1>2 DEF Block
            <4>3. TableOf(c) = new BY <3>2, <4>2, <1>9, <1>10 DEF Block
            <4>4. c # begin /\ c # b /\ c # prev /\ bat[c] = Free
                BY <4>1, <4>2, <4>3, <1>1, <1>5, <1>6 DEF Block
            <4> QED BY <3>2, <4>3, <4>4, <1>1, <1>7, <1>8
        <3> QED BY <3>1, <3>2
    <2> QED BY <2>1, <2>2, <2>3 DEF MarkersAreLast
<1>12. NewTablesAreFree'
    <2>1. \A c \in Block : kind'[TableOf(c)] = "none" => bat'[c] = Free
        BY <1>1, <1>4, <1>5, <1>6, <1>7, <1>9 DEF NewTablesAreFree, Kinds
    <2>2. ASSUME NEW t \in Table
          PROVE  kind'[t] = "none" <=> \A j \in Kinds : t > TableOf(last'[j])
        <3>1. \A j \in Kinds : TableOf(last[j]) < new
            <4> SUFFICES ASSUME NEW j \in Kinds PROVE TableOf(last[j]) < new
                OBVIOUS
            <4>1. TableOf(last[j]) \in Table /\ kind[TableOf(last[j])] # "none"
                BY DEF MarkersAreLast, Kinds
            <4> QED BY <4>1, <1>1 DEF Table
        <3>2. kind'[t] = "none" <=> t > new
            BY <1>1, <1>9 DEF Kinds, Table
        <3>3. \A j \in Kinds : TableOf(last'[j]) = IF j = k THEN new ELSE TableOf(last[j])
            BY <1>1, <1>8
        <3>4. \A j \in Kinds : TableOf(last[j]) \in Int
            BY DEF Kinds, Table
        <3>5. t \in Int /\ new \in Int BY <1>1 DEF Table
        <3> QED BY <3>1, <3>2, <3>3, <3>4, <3>5
    <2> QED BY <2>1, <2>2 DEF NewTablesAreFree
<1>13. FreeIsListed'
    <2> SUFFICES ASSUME NEW j \in Kinds
                 PROVE  free[j] = {c \in Block : kind'[TableOf(c)] = j /\ c < last'[j] /\ bat'[c] = Free}
        BY <1>2 DEF FreeIsListed
    <2>1. \A c \in Block :
              kind'[TableOf(c)] = j /\ c < last'[j] /\ bat'[c] = Free
                  <=> kind[TableOf(c)] = j /\ c < last[j] /\ bat[c] = Free
        <3> SUFFICES ASSUME NEW c \in Block
                     PROVE  kind'[TableOf(c)] = j /\ c < last'[j] /\ bat'[c] = Free
                                <=> kind[TableOf(c)] = j /\ c < last[j] /\ bat[c] = Free
            OBVIOUS
        <3>1. CASE TableOf(c) = new
            <4>1. kind[TableOf(c)] = "none" /\ ~(c < begin) BY <3>1, <1>1 DEF Block
            <4>2. j = k \/ kind'[TableOf(c)] # j BY <3>1, <1>9
            <4> QED BY <4>1, <4>2, <1>8 DEF Kinds
        <3>2. CASE TableOf(c) # new /\ j # k
            BY <3>2, <1>1, <1>4, <1>5, <1>6, <1>7, <1>8, <1>9
        <3>3. CASE TableOf(c) # new /\ j = k
            <4>1. kind'[TableOf(c)] = kind[TableOf(c)] BY <3>3, <1>9
            <4>2. kind[TableOf(c)] = k => (c < b <=> c # b) /\ c < begin
                BY <1>1, <1>2, <1>10 DEF Block
            <4> QED BY <3>3, <4>1, <4>2, <1>1, <1>2, <1>4, <1>5, <1>6, <1>7, <1>8
        <3> QED BY <3>1, <3>2, <3>3
    <2> QED BY <2>1 DEF FreeIsListed
<1>14. \A c \in Block : TableOf(c) \notin dirty' =>
          TableOf(c) \notin dirty /\ c # b /\ c # begin /\ c # prev /\ TableOf(c) # new
    <2> SUFFICES ASSUME NEW c \in Block, TableOf(c) \notin dirty'
                 PROVE  TableOf(c) \notin dirty /\ c # b /\ c # begin /\ c # prev /\ TableOf(c) # new
        OBVIOUS
    <2>1. TableOf(begin) \in dirty' /\ TableOf(b) \in dirty' /\ (prev \in Block => TableOf(prev) \in dirty')
        BY <1>1, <1>2 DEF EOFBLOCK, Block
    <2>2. dirty \subseteq dirty' BY <1>2
    <2> QED BY <1>1, <2>1, <2>2
<1>15. UnmarkedIsOnDisk'
    <2>1. begin \in Int /\ \A j \in Kinds : last[j] \in Int BY <1>1 DEF Kinds
    <2>2. \A c \in Block : c \in Int OBVIOUS
    <2>3. \A j \in Kinds, c \in Block : c > last'[j] => c > last[j]
        BY <2>1, <2>2, <1>1, <1>8
    <2> QED BY <2>3, <1>7, <1>9, <1>14, UnmarkedStays
<1> QED BY <1>11, <1>12, <1>13, <1>15

\* What a file sees of _os_GetFreeBlock_: a block nobody had is the new end, linked
\* to the old one, and no other block in use changes.
LEMMA TakenIsLinked ==
    ASSUME IInv, NEW k \in Kinds, NEW b \in Block, NEW prev \in Block \cup {EOFBLOCK},
           CanLink(prev), GetFreeBlock(k, prev, b)
    PROVE  /\ bat' \in [Block -> Block \cup {EOFBLOCK}]
           /\ bat'[b] = EOFBLOCK
           /\ prev \in Block => bat'[prev] = b
           /\ \A c \in Owned \cup System : c # prev => bat'[c] = bat[c]
           /\ kind' \in [Table -> Kinds \cup {"none"}]
           /\ last' \in [Kinds -> Block]
           /\ free' \in [Kinds -> SUBSET Block]
           /\ dirty' \subseteq Table
<1> USE Blocks DEF IInv, TypeOK, CanLink, Linked, Smudge
<1>1. b \notin Owned \cup System /\ b # EOFBLOCK /\ 0 \in Block /\ 1 \in Block
    <2>1. b \notin Owned \cup System BY TakenBlock
    <2>2. 0 \in System /\ 1 \in System BY DEF System
    <2> QED BY <2>1, <2>2, SystemBlocks
<1>2. EOFBLOCK \notin Block /\ Owned \subseteq Block /\ System \subseteq Block
    BY SystemBlocks DEF EOFBLOCK, Block, Owned
<1>3. \A t \in SUBSET (Block \cup {EOFBLOCK}) : {TableOf(c) : c \in t \ {EOFBLOCK}} \subseteq Table
    OBVIOUS
<1>4. CASE TakeFreed(k, prev, b)
    BY <1>1, <1>2, <1>3, <1>4 DEF TakeFreed
<1>5. CASE TakeMarked(k, prev, b)
    <2>1. b + 1 \in Block /\ TableOf(b + 1) = TableOf(b) /\ b + 1 # b /\ b = last[k]
        BY <1>5, NextInTable DEF TakeMarked
    <2>2. b + 1 \notin Owned \cup System
        BY <2>1 DEF MarkersAreLast, OwnedIsUsed
    <2>3. bat' = Linked([bat EXCEPT ![b] = EOFBLOCK, ![b + 1] = EOBBLOCK], prev, b)
        BY <1>5 DEF TakeMarked
    <2>4. prev # b + 1 BY <2>1, <2>2, <1>2
    <2>5. EOBBLOCK \in Block BY <1>1 DEF EOBBLOCK
    <2>6. bat' \in [Block -> Block \cup {EOFBLOCK}] /\ bat'[b] = EOFBLOCK
              /\ (prev \in Block => bat'[prev] = b)
              /\ \A c \in Owned \cup System : c # prev => bat'[c] = bat[c]
        BY <1>1, <1>2, <2>1, <2>2, <2>3, <2>4, <2>5
    <2>7. kind' = kind /\ free' = free /\ last' = [last EXCEPT ![k] = b + 1] /\ Smudge({prev, b})
        BY <1>5 DEF TakeMarked
    <2>8. {prev, b} \in SUBSET (Block \cup {EOFBLOCK}) OBVIOUS
    <2> QED BY <1>3, <2>1, <2>6, <2>7, <2>8
<1>6. CASE TakeLastOfTable(k, prev, b)
    <2> DEFINE new == TableOf(Max({last["large"], last["small"]})) + 1
    <2> DEFINE begin == PerBat * new
    <2>1. /\ new \in Table /\ begin \in Block /\ TableOf(begin) = new
          /\ \A c \in Block : TableOf(c) = new => bat[c] = Free
          /\ \A j \in Kinds : last[j] < begin
        BY <1>6, NewTable
    <2>2. /\ b = last[k]
          /\ bat' = Linked([bat EXCEPT ![b] = EOFBLOCK, ![begin] = EOBBLOCK], prev, b)
          /\ kind' = [kind EXCEPT ![new] = k]
          /\ last' = [last EXCEPT ![k] = begin]
          /\ Smudge({prev, b, begin})
          /\ free' = free
        BY <1>6 DEF TakeLastOfTable
    <2> HIDE DEF new, begin
    <2>3. begin \notin Owned \cup System BY <2>1 DEF OwnedIsUsed
    <2>4. begin # b
        <3>1. last[k] < begin /\ b \in Int /\ begin \in Int BY <2>1
        <3> QED BY <3>1, <2>2
    <2>5. prev # begin BY <2>3, <1>2, <2>1
    <2>6. EOBBLOCK \in Block BY <1>1 DEF EOBBLOCK
    <2>7. bat' \in [Block -> Block \cup {EOFBLOCK}] /\ bat'[b] = EOFBLOCK
              /\ (prev \in Block => bat'[prev] = b)
              /\ \A c \in Owned \cup System : c # prev => bat'[c] = bat[c]
        BY <1>1, <1>2, <2>1, <2>2, <2>3, <2>4, <2>5, <2>6
    <2>8. {prev, b, begin} \in SUBSET (Block \cup {EOFBLOCK}) BY <2>1
    <2> QED BY <1>3, <2>1, <2>2, <2>7, <2>8
<1> QED BY <1>4, <1>5, <1>6 DEF GetFreeBlock

\* A write puts a block nobody had behind the last block of the file.
LEMMA WriteStep ==
    ASSUME IInv, NEW k \in Kinds, NEW b \in Block, WriteBlock(k, b)
    PROVE  IInv'
<1>1. cur \in Block \cup {EOFBLOCK} /\ CanLink(cur) /\ file \in Files
      /\ (step = "write" <=> cur \in Block) /\ (step = "truncated" <=> cur = EOFBLOCK)
    BY FilesAssumption DEF IInv, TypeOK, StepIsSane, WriteBlock, CanLink, Owned, EOFBLOCK, Block
<1>2. GetFreeBlock(k, cur, b) /\ disk' = disk BY DEF WriteBlock
<1>3. Allocator'
    BY <1>1, <1>2, AllocTakeFreed, AllocTakeMarked, AllocTakeLastOfTable DEF GetFreeBlock
<1>4. b \notin Owned \cup System BY <1>1, <1>2, TakenBlock
<1>5. /\ bat' \in [Block -> Block \cup {EOFBLOCK}]
      /\ bat'[b] = EOFBLOCK
      /\ cur \in Block => bat'[cur] = b
      /\ \A c \in Owned \cup System : c # cur => bat'[c] = bat[c]
      /\ kind' \in [Table -> Kinds \cup {"none"}]
      /\ last' \in [Kinds -> Block]
      /\ free' \in [Kinds -> SUBSET Block]
      /\ dirty' \subseteq Table
    BY <1>1, <1>2, TakenIsLinked
<1>6. TypeOK' BY <1>1, <1>5 DEF IInv, TypeOK, WriteBlock, Goto, Steps
<1>7. Owned' = Owned \cup {b} /\ owner'[b] = file /\ \A c \in Block : c # b => owner'[c] = owner[c]
    BY <1>1, FilesAssumption DEF Owned, WriteBlock, IInv, TypeOK
<1>8. b # Free /\ b # EOBBLOCK /\ b # EOFBLOCK /\ EOFBLOCK # Free /\ EOFBLOCK # EOBBLOCK
    BY <1>4, SystemBlocks DEF EOFBLOCK, Free, EOBBLOCK
<1>9. cur \in Block => cur \in Owned /\ cur # b /\ owner[cur] = file /\ bat[cur] = EOFBLOCK
    BY <1>1, <1>4 DEF CanLink, IInv, StepIsSane, EOFBLOCK, Block
<1>10. OwnedIsUsed' BY <1>4, <1>5, <1>7, <1>8, <1>9, SystemBlocks DEF IInv, OwnedIsUsed, Owned
<1>11. \A f \in Files : HeadOf(f)' = IF step = "truncated" /\ f = file THEN b ELSE HeadOf(f)
    BY <1>1 DEF HeadOf, WriteBlock, Goto, IInv, TypeOK
<1>12. \A c \in Owned : bat[c] # b BY <1>4, <1>8 DEF IInv, ChainsAreSeparate, Owned, OwnedIsUsed
<1>13. \A f \in Files : HeadOf(f) # b
    BY <1>4, <1>8, FilesAssumption DEF IInv, ChainsAreSeparate, Owned
<1>14. ChainsAreSeparate'
    <2>1. ASSUME NEW c \in Owned', bat'[c] # EOFBLOCK
          PROVE  bat'[c] \in Block /\ owner'[bat'[c]] = owner'[c]
        BY <2>1, <1>4, <1>5, <1>7, <1>9, <1>12 DEF IInv, ChainsAreSeparate, Owned
    <2>2. ASSUME NEW c \in Owned', NEW d \in Owned' \ {c}, bat'[c] = bat'[d]
          PROVE  bat'[c] = EOFBLOCK
        BY <2>2, <1>4, <1>5, <1>7, <1>9, <1>12 DEF IInv, ChainsAreSeparate, Owned
    <2>3. ASSUME NEW f \in Files, HeadOf(f)' # EOFBLOCK
          PROVE  owner'[HeadOf(f)'] = f /\ \A c \in Owned' : bat'[c] # HeadOf(f)'
        <3>1. CASE step = "truncated" /\ f = file
            <4>1. HeadOf(f)' = b /\ owner'[b] = f BY <3>1, <1>7, <1>11
            <4>2. ASSUME NEW c \in Owned' PROVE bat'[c] # b
                <5>1. c # cur BY <3>1, <1>1 DEF Owned, EOFBLOCK, Block
                <5> QED BY <5>1, <1>5, <1>7, <1>8, <1>12
            <4> QED BY <4>1, <4>2
        <3>2. CASE ~(step = "truncated" /\ f = file)
            <4>1. HeadOf(f)' = HeadOf(f) /\ HeadOf(f) # EOFBLOCK /\ HeadOf(f) # b
                BY <3>2, <1>11, <1>13, <2>3
            <4>2. HeadOf(f) \in Block /\ owner[HeadOf(f)] = f /\ \A c \in Owned : bat[c] # HeadOf(f)
                BY <4>1 DEF IInv, ChainsAreSeparate, HeadOf, TypeOK
            <4>3. owner'[HeadOf(f)] = f BY <4>1, <4>2, <1>7
            <4>4. ASSUME NEW c \in Owned' PROVE bat'[c] # HeadOf(f)
                <5>1. CASE c \in {b, cur}
                    <6>1. c \in Block BY DEF Owned
                    <6>2. bat'[c] \in {b, EOFBLOCK} BY <5>1, <6>1, <1>5
                    <6> QED BY <4>1, <6>2
                <5>2. CASE c \notin {b, cur} BY <5>2, <4>2, <1>5, <1>7
                <5> QED BY <5>1, <5>2
            <4> QED BY <4>1, <4>3, <4>4
        <3> QED BY <3>1, <3>2
    <2> QED BY <2>1, <2>2, <2>3 DEF ChainsAreSeparate
<1>15. StepIsSane'
    BY <1>1, <1>5, <1>7 DEF StepIsSane, WriteBlock, Goto
<1> QED BY <1>3, <1>6, <1>10, <1>14, <1>15 DEF IInv, Allocator

-----------------------------------------------------------------------------
\* A block in use can be freed: the lists, the markers and the unmarked tables agree
\* with the tables as before.
LEMMA AllocFree ==
    ASSUME IInv, FreeBlock, cur \in Owned, dirty \subseteq dirty'
    PROVE  Allocator'
<1> USE Blocks DEF Allocator, IInv, TypeOK, FreeBlock
<1>1. cur \in Block /\ bat[cur] # Free /\ bat[cur] # EOBBLOCK BY DEF Owned, OwnedIsUsed
<1>2. \A c \in Block : bat'[c] = IF c = cur THEN Free ELSE bat[c] BY <1>1
<1>3. Free # EOBBLOCK /\ Free # EOFBLOCK BY DEF Free, EOBBLOCK, EOFBLOCK
<1>4. PICK k \in Kinds : kind[TableOf(cur)] = k
    BY <1>1 DEF NewTablesAreFree
<1>5. cur < last[k]
    <2>1. ~(cur > last[k]) BY <1>1, <1>4 DEF MarkersAreLast
    <2>2. cur # last[k] BY <1>1 DEF MarkersAreLast
    <2>3. cur \in Int /\ last[k] \in Int BY <1>1
    <2> QED BY <2>1, <2>2, <2>3
<1>6. MarkersAreLast' BY <1>1, <1>2, <1>3 DEF MarkersAreLast
<1>7. NewTablesAreFree' BY <1>1, <1>2 DEF NewTablesAreFree
<1>8. FreeIsListed'
    <2> SUFFICES ASSUME NEW j \in Kinds
                 PROVE  free'[j] = {c \in Block : kind[TableOf(c)] = j /\ c < last[j] /\ bat'[c] = Free}
        BY DEF FreeIsListed
    <2>1. free'[j] = IF j = k THEN free[j] \cup {cur} ELSE free[j] BY <1>4
    <2> QED BY <2>1, <1>1, <1>2, <1>4, <1>5 DEF FreeIsListed
<1>9. UnmarkedIsOnDisk'
    <2> SUFFICES ASSUME NEW b \in Block, TableOf(b) \notin dirty'
                 PROVE  /\ bat'[b] # Free => disk.bat[b] = bat'[b]
                        /\ disk.bat[b] = EOBBLOCK => bat'[b] = EOBBLOCK
                        /\ kind[TableOf(b)] = "none" \/ (\E j \in Kinds : kind[TableOf(b)] = j /\ b > last[j])
                              => disk.bat[b] = Free
        BY DEF UnmarkedIsOnDisk
    <2>1. TableOf(b) \notin dirty OBVIOUS
    <2>2. disk.bat[b] = EOBBLOCK => b # cur BY <2>1, <1>1 DEF UnmarkedIsOnDisk
    <2> QED BY <2>1, <2>2, <1>2 DEF UnmarkedIsOnDisk
<1> QED BY <1>6, <1>7, <1>8, <1>9

\* The block an operation that frees has reached is the first one its file still has.
LEMMA FreedIsHead ==
    ASSUME IInv, step \in {"shrink", "unlink"}
    PROVE  /\ file \in Files /\ cur \in Block /\ owner[cur] = file /\ cur \in Owned
           /\ HeadOf(file) = cur
           /\ bat[cur] # EOFBLOCK => bat[cur] \in Block /\ bat[cur] \in Owned /\ owner[bat[cur]] = file
           /\ \A c \in Owned : bat[c] # cur
<1>1. file \in Files /\ cur \in Block /\ HeadOf(file) = cur /\ cur # EOFBLOCK
    BY DEF IInv, StepIsSane, TypeOK, HeadOf
<1>2. owner[cur] = file /\ \A c \in Owned : bat[c] # cur BY <1>1 DEF IInv, ChainsAreSeparate
<1>3. cur \in Owned BY <1>1, <1>2, FilesAssumption DEF Owned
<1> QED BY <1>1, <1>2, <1>3, FilesAssumption DEF IInv, ChainsAreSeparate, Owned

\* When the first block of a file goes, its chain begins with the next one.
LEMMA ChainsWithoutHead ==
    ASSUME IInv, step \in {"shrink", "unlink"}, FreeBlock,
           \A f \in Files : HeadOf(f)' = IF f = file THEN bat[cur] ELSE HeadOf(f)
    PROVE  OwnedIsUsed' /\ ChainsAreSeparate'
<1>1. /\ file \in Files /\ cur \in Block /\ owner[cur] = file /\ cur \in Owned
      /\ HeadOf(file) = cur
      /\ bat[cur] # EOFBLOCK => bat[cur] \in Block /\ bat[cur] \in Owned /\ owner[bat[cur]] = file
      /\ \A c \in Owned : bat[c] # cur
    BY FreedIsHead
<1>2. Owned' = Owned \ {cur} /\ \A c \in Owned' : c \in Block /\ owner'[c] = owner[c] /\ bat'[c] = bat[c]
    BY <1>1 DEF Owned, FreeBlock, IInv, TypeOK
<1>3. \A c \in System : c \in Block /\ c # cur /\ owner'[c] = owner[c] /\ bat'[c] = bat[c]
    BY <1>1, SystemBlocks, FilesAssumption DEF FreeBlock, IInv, TypeOK, OwnedIsUsed
<1>4. OwnedIsUsed' BY <1>2, <1>3 DEF IInv, OwnedIsUsed
<1>5. ASSUME NEW c \in Owned', bat'[c] # EOFBLOCK
      PROVE  bat'[c] \in Block /\ owner'[bat'[c]] = owner'[c]
    <2>1. bat[c] \in Block /\ owner[bat[c]] = owner[c] /\ bat[c] # cur
        BY <1>5, <1>1, <1>2 DEF IInv, ChainsAreSeparate
    <2> QED BY <2>1, <1>1, <1>2 DEF FreeBlock, IInv, TypeOK
<1>6. ASSUME NEW c \in Owned', NEW d \in Owned' \ {c}, bat'[c] = bat'[d]
      PROVE  bat'[c] = EOFBLOCK
    BY <1>6, <1>2 DEF IInv, ChainsAreSeparate
<1>7. ASSUME NEW f \in Files, HeadOf(f)' # EOFBLOCK
      PROVE  owner'[HeadOf(f)'] = f /\ \A c \in Owned' : bat'[c] # HeadOf(f)'
    <2>1. CASE f = file
        <3>1. HeadOf(f)' = bat[cur] /\ bat[cur] # EOFBLOCK /\ bat[cur] # cur BY <2>1, <1>1, <1>7
        <3>2. owner'[bat[cur]] = f BY <3>1, <2>1, <1>1, <1>2
        <3>3. \A c \in Owned' : bat[c] # bat[cur]
            BY <3>1, <1>1, <1>2 DEF IInv, ChainsAreSeparate
        <3> QED BY <3>1, <3>2, <3>3, <1>2
    <2>2. CASE f # file
        <3>1. HeadOf(f)' = HeadOf(f) /\ HeadOf(f) # EOFBLOCK BY <2>2, <1>7
        <3>2. owner[HeadOf(f)] = f /\ \A c \in Owned : bat[c] # HeadOf(f)
            BY <3>1 DEF IInv, ChainsAreSeparate
        <3>3. HeadOf(f) \in Block /\ HeadOf(f) # cur
            BY <3>1, <3>2, <2>2, <1>1 DEF HeadOf, IInv, TypeOK
        <3>4. HeadOf(f) \in Owned' BY <3>2, <3>3, <1>2, FilesAssumption DEF Owned
        <3> QED BY <3>1, <3>2, <3>4, <1>2
    <2> QED BY <2>1, <2>2
<1>8. ChainsAreSeparate' BY <1>5, <1>6, <1>7 DEF ChainsAreSeparate
<1> QED BY <1>4, <1>8

LEMMA FreeTyping ==
    ASSUME IInv, FreeBlock, cur \in Owned
    PROVE  /\ bat' \in [Block -> Block \cup {EOFBLOCK}]
           /\ free' \in [Kinds -> SUBSET Block]
           /\ owner' \in [Block -> Files \cup {NoFile}]
           /\ TableOf(cur) \in Table
<1>1. Free \in Block BY SystemBlocks DEF System, Free
<1>2. cur \in Block BY DEF Owned
<1> QED BY <1>1, <1>2, Blocks DEF FreeBlock, IInv, TypeOK

LEMMA ShrinkStep == ASSUME IInv, ShrinkBlock PROVE IInv'
<1>1. step \in {"shrink", "unlink"} /\ step = "shrink" /\ FreeBlock /\ dirty' = dirty
    BY DEF ShrinkBlock
<1>2. /\ file \in Files /\ cur \in Block /\ owner[cur] = file /\ cur \in Owned
      /\ bat[cur] # EOFBLOCK => bat[cur] \in Block
    BY <1>1, FreedIsHead
<1>3. Allocator' BY <1>1, <1>2, AllocFree
<1>4. TypeOK'
    BY <1>1, <1>2, FreeTyping DEF IInv, TypeOK, ShrinkBlock, FreeBlock, Goto, Steps
<1>5. /\ StepIsSane'
      /\ \A f \in Files : HeadOf(f)' = IF f = file THEN bat[cur] ELSE HeadOf(f)
    BY <1>1, <1>2 DEF ShrinkBlock, HeadOf, Goto, IInv, TypeOK, StepIsSane
<1> QED BY <1>1, <1>3, <1>4, <1>5, ChainsWithoutHead DEF IInv, Allocator

LEMMA UnlinkStep == ASSUME IInv, UnlinkBlock PROVE IInv'
<1>1. step \in {"shrink", "unlink"} /\ step = "unlink" /\ FreeBlock /\ Smudge({cur})
    BY DEF UnlinkBlock
<1>2. /\ file \in Files /\ cur \in Block /\ owner[cur] = file /\ cur \in Owned
      /\ bat[cur] # EOFBLOCK => bat[cur] \in Block
    BY <1>1, FreedIsHead
<1>3. dirty \subseteq dirty' /\ dirty' \subseteq Table
    BY <1>1, <1>2, Blocks DEF Smudge, IInv, TypeOK
<1>4. Allocator' BY <1>1, <1>2, <1>3, AllocFree
<1>5. TypeOK'
    BY <1>1, <1>2, <1>3, FreeTyping DEF IInv, TypeOK, UnlinkBlock, FreeBlock, Goto, Return, Steps
<1>6. /\ StepIsSane'
      /\ \A f \in Files : HeadOf(f)' = IF f = file THEN bat[cur] ELSE HeadOf(f)
    BY <1>1, <1>2 DEF UnlinkBlock, HeadOf, Goto, Return, IInv, TypeOK, StepIsSane
<1> QED BY <1>1, <1>4, <1>5, <1>6, ChainsWithoutHead DEF IInv, Allocator

\* The steps that begin or end an operation, and the flusher, leave the chains alone.
LEMMA ChainsStay ==
    ASSUME IInv, owner' = owner, \A c \in Owned \cup System : bat'[c] = bat[c],
           \A f \in Files : HeadOf(f)' = HeadOf(f)
    PROVE  OwnedIsUsed' /\ ChainsAreSeparate'
<1>1. Owned' = Owned BY DEF Owned
<1>2. OwnedIsUsed' BY <1>1 DEF IInv, OwnedIsUsed
<1>3. ChainsAreSeparate' BY <1>1 DEF IInv, ChainsAreSeparate
<1> QED BY <1>2, <1>3

LEMMA TruncateStep == ASSUME IInv, NEW f \in Files, Truncate(f) PROVE IInv'
<1>1. TypeOK' BY BoundAssumption DEF IInv, TypeOK, Truncate, Begin, Goto, Steps, tables
<1>2. StepIsSane' /\ \A g \in Files : HeadOf(g)' = HeadOf(g)
    BY DEF IInv, Truncate, Begin, Goto, StepIsSane, HeadOf, TypeOK
<1>3. OwnedIsUsed' /\ ChainsAreSeparate' BY <1>2, ChainsStay DEF Truncate, tables
<1>4. Allocator'
    BY DEF IInv, Allocator, MarkersAreLast, NewTablesAreFree, FreeIsListed, UnmarkedIsOnDisk, Truncate,
           tables
<1> QED BY <1>1, <1>2, <1>3, <1>4 DEF IInv, Allocator

LEMMA DeleteStep == ASSUME IInv, NEW f \in Files, Delete(f) PROVE IInv'
<1>1. TypeOK' BY BoundAssumption DEF IInv, TypeOK, Delete, Begin, Goto, Steps, tables
<1>2. StepIsSane' /\ \A g \in Files : HeadOf(g)' = HeadOf(g)
    BY DEF IInv, Delete, Begin, Goto, StepIsSane, HeadOf, TypeOK
<1>3. OwnedIsUsed' /\ ChainsAreSeparate' BY <1>2, ChainsStay DEF Delete, tables
<1>4. Allocator'
    BY DEF IInv, Allocator, MarkersAreLast, NewTablesAreFree, FreeIsListed, UnmarkedIsOnDisk, Delete,
           tables
<1> QED BY <1>1, <1>2, <1>3, <1>4 DEF IInv, Allocator

LEMMA CloseStep == ASSUME IInv, Close PROVE IInv'
<1>1. TypeOK' BY DEF IInv, TypeOK, Close, Return, Goto, Steps, tables
<1>2. StepIsSane' /\ \A g \in Files : HeadOf(g)' = HeadOf(g)
    BY DEF IInv, Close, Return, Goto, StepIsSane, HeadOf, TypeOK
<1>3. OwnedIsUsed' /\ ChainsAreSeparate' BY <1>2, ChainsStay DEF Close, tables
<1>4. Allocator'
    BY DEF IInv, Allocator, MarkersAreLast, NewTablesAreFree, FreeIsListed, UnmarkedIsOnDisk, Close,
           tables
<1> QED BY <1>1, <1>2, <1>3, <1>4 DEF IInv, Allocator

\* The disk after a flush: the marked tables as they are, and the others, in blocks
\* that are not free, as well.
LEMMA FlushedTables ==
    ASSUME IInv
    PROVE  /\ Flushed.bat \in [Block -> Block \cup {EOFBLOCK}]
           /\ Flushed.kind = kind /\ Flushed.first = first /\ Flushed.owner = owner
           /\ \A b \in Block : bat[b] # Free => Flushed.bat[b] = bat[b]
           /\ \A b \in Block : Flushed.bat[b] = EOBBLOCK <=> bat[b] = EOBBLOCK
           /\ \A b \in Block :
                kind[TableOf(b)] = "none" \/ (\E k \in Kinds : kind[TableOf(b)] = k /\ b > last[k])
                    => Flushed.bat[b] = Free
<1>1. \A b \in Block : Flushed.bat[b] = IF TableOf(b) \in dirty THEN bat[b] ELSE disk.bat[b]
    BY DEF Flushed
<1>2. Free # EOBBLOCK BY DEF Free, EOBBLOCK
<1>3. Flushed.bat \in [Block -> Block \cup {EOFBLOCK}] BY DEF IInv, TypeOK, Flushed
<1>4. \A b \in Block : bat[b] # Free => Flushed.bat[b] = bat[b]
    BY <1>1 DEF IInv, UnmarkedIsOnDisk
<1>5. \A b \in Block : Flushed.bat[b] = EOBBLOCK <=> bat[b] = EOBBLOCK
    BY <1>1, <1>2, <1>4 DEF IInv, UnmarkedIsOnDisk
<1>6. ASSUME NEW b \in Block,
             kind[TableOf(b)] = "none" \/ (\E k \in Kinds : kind[TableOf(b)] = k /\ b > last[k])
      PROVE  Flushed.bat[b] = Free
    <2>1. bat[b] = Free BY <1>6 DEF IInv, MarkersAreLast, NewTablesAreFree
    <2> QED BY <1>6, <2>1, <1>1 DEF IInv, UnmarkedIsOnDisk
<1>7. Flushed.kind = kind /\ Flushed.first = first /\ Flushed.owner = owner BY DEF Flushed
<1> QED BY <1>3, <1>4, <1>5, <1>6, <1>7

LEMMA FlushStep == ASSUME IInv, Flush PROVE IInv'
<1>1. /\ dirty' = {} /\ disk' = Flushed /\ bat' = bat /\ kind' = kind /\ last' = last /\ free' = free
      /\ first' = first /\ step' = step /\ file' = file /\ cur' = cur /\ owner' = owner /\ ops' = ops
    BY DEF Flush
<1>2. Flushed \in [bat : [Block -> Block \cup {EOFBLOCK}], kind : [Table -> Kinds \cup {"none"}],
                    first : [Files -> Block \cup {EOFBLOCK}], owner : [Block -> Files \cup {NoFile}]]
    <2>1. Flushed.bat \in [Block -> Block \cup {EOFBLOCK}] BY FlushedTables
    <2> QED BY <2>1 DEF Flushed, IInv, TypeOK
<1>3. TypeOK' BY <1>1, <1>2 DEF IInv, TypeOK
<1>4. StepIsSane' /\ \A f \in Files : HeadOf(f)' = HeadOf(f)
    BY <1>1 DEF IInv, StepIsSane, HeadOf
<1>5. OwnedIsUsed' /\ ChainsAreSeparate' BY <1>1, <1>4, ChainsStay
<1>6. MarkersAreLast' /\ NewTablesAreFree' /\ FreeIsListed'
    BY <1>1 DEF IInv, MarkersAreLast, NewTablesAreFree, FreeIsListed
<1>7. UnmarkedIsOnDisk' BY <1>1, FlushedTables DEF UnmarkedIsOnDisk
<1> QED BY <1>3, <1>4, <1>5, <1>6, <1>7 DEF IInv

\* An element no other exceeds is the greatest.
LEMMA MaxIs ==
    ASSUME NEW S, NEW m \in S, m \in Int, \A b \in S : b <= m /\ b \in Int
    PROVE  Max(S) = m
<1>1. \A x \in S : (\A y \in S : x >= y) => x >= m
    OBVIOUS
<1>2. \A x \in S : x >= m => x = m
    OBVIOUS
<1>3. \A y \in S : m >= y
    OBVIOUS
<1>4. \A x \in S : (\A y \in S : x >= y) <=> x = m
    BY <1>1, <1>2, <1>3, Zenon
<1> QED BY <1>4 DEF Max

\* A scan of tables with the same markers sees the blocks up to the marker of each
\* kind, and leaves off at the marker.
LEMMA Scan ==
    ASSUME IInv, NEW t \in [Block -> Block \cup {EOFBLOCK}],
           \A b \in Block : t[b] = EOBBLOCK <=> bat[b] = EOBBLOCK,
           NEW k \in Kinds
    PROVE  /\ Scanned(t, kind, k) = {b \in Block : kind[TableOf(b)] = k /\ b <= last[k]}
           /\ Freed(t, kind, k) = {b \in Block : kind[TableOf(b)] = k /\ b < last[k] /\ t[b] = Free}
           /\ LastScanned(t, kind, k) = last[k]
<1> USE Blocks DEF IInv, TypeOK
<1>1. last[k] \in Block /\ last[k] \in Int /\ kind[TableOf(last[k])] = k /\ t[last[k]] = EOBBLOCK
    BY DEF MarkersAreLast
<1>2. ASSUME NEW b \in Scanned(t, kind, k)
      PROVE  b \in Block /\ kind[TableOf(b)] = k /\ b <= last[k]
    <2>1. b \in Block /\ kind[TableOf(b)] = k BY DEF Scanned
    <2>2. ASSUME b > last[k] PROVE FALSE
        <3>1. TableOf(b) = TableOf(last[k]) BY <2>1, <2>2 DEF MarkersAreLast
        <3>2. last[k] \in BlocksOf(TableOf(b)) BY <3>1, <2>1, <1>1, BlocksOfTable
        <3>3. last[k] < b BY <2>2, <1>1, <2>1
        <3>4. \A c \in BlocksOf(TableOf(b)) : c < b => t[c] # EOBBLOCK BY DEF Scanned
        <3> QED BY <3>2, <3>3, <3>4, <1>1
    <2>3. b \in Int BY <2>1
    <2> QED BY <2>1, <2>2, <2>3, <1>1
<1>3. ASSUME NEW b \in Block, kind[TableOf(b)] = k, b <= last[k]
      PROVE  b \in Scanned(t, kind, k)
    <2> SUFFICES ASSUME NEW c \in BlocksOf(TableOf(b)), c < b, t[c] = EOBBLOCK PROVE FALSE
        BY <1>3 DEF Scanned
    <2>1. c \in Block
        <3>1. PerBat * TableOf(b) \in Block /\ PerBat * TableOf(b) <= c /\ c \in Int
            BY SizeAssumption DEF BlocksOf, Table
        <3> QED BY <3>1, SizeAssumption DEF Block
    <2>2. TableOf(c) = TableOf(b) BY <2>1, BlocksOfTable
    <2>3. PICK j \in Kinds : c = last[j] BY <2>1 DEF MarkersAreLast
    <2>4. j = k BY <2>2, <2>3, <1>3 DEF MarkersAreLast
    <2> QED BY <2>1, <2>3, <2>4, <1>1, <1>3
<1>4. Scanned(t, kind, k) = {b \in Block : kind[TableOf(b)] = k /\ b <= last[k]} BY <1>2, <1>3
<1>5. Free # EOBBLOCK BY DEF Free, EOBBLOCK
<1>6. \A b \in Block : t[b] = Free => (b <= last[k] <=> b < last[k])
    <2> TAKE b \in Block
    <2>1. b \in Int BY Blocks
    <2>2. t[b] = Free => b # last[k] BY <1>1, <1>5
    <2> QED BY <2>1, <2>2, <1>1
<1>7. Freed(t, kind, k) = {b \in Block : kind[TableOf(b)] = k /\ b < last[k] /\ t[b] = Free}
    BY <1>4, <1>6 DEF Freed
<1>8. LastScanned(t, kind, k) = last[k]
    <2> DEFINE met == {b \in Scanned(t, kind, k) : t[b] \in {Free, EOBBLOCK}}
    <2>1. last[k] \in met BY <1>1, <1>4
    <2>2. \A b \in met : b <= last[k] /\ b \in Int BY <1>4
    <2>3. LastScanned(t, kind, k) = Max(met) BY <2>1 DEF LastScanned
    <2> HIDE DEF met
    <2>5. Max(met) = last[k] BY <2>1, <2>2, <1>1, MaxIs
    <2> QED BY <2>3, <2>5
<1> QED BY <1>4, <1>7, <1>8

\* What the scan of the load finds is what was in memory, but for blocks that only a
\* truncate freed.
LEMMA ReloadStep == ASSUME IInv, Reload PROVE IInv'
<1>1. /\ dirty' = {} /\ disk' = Flushed /\ bat' = Flushed.bat /\ kind' = kind
      /\ free' = [k \in Kinds |-> Freed(Flushed.bat, kind, k)]
      /\ last' = [k \in Kinds |-> LastScanned(Flushed.bat, kind, k)]
      /\ first' = first /\ step' = step /\ file' = file /\ cur' = cur /\ owner' = owner /\ ops' = ops
      /\ step = "idle"
    BY DEF Reload, Validate
<1>2. /\ Flushed.bat \in [Block -> Block \cup {EOFBLOCK}]
      /\ \A b \in Block : bat[b] # Free => Flushed.bat[b] = bat[b]
      /\ \A b \in Block : Flushed.bat[b] = EOBBLOCK <=> bat[b] = EOBBLOCK
      /\ \A b \in Block :
           kind[TableOf(b)] = "none" \/ (\E k \in Kinds : kind[TableOf(b)] = k /\ b > last[k])
               => Flushed.bat[b] = Free
    BY FlushedTables
<1>3. \A k \in Kinds :
          /\ Freed(Flushed.bat, kind, k)
                = {b \in Block : kind[TableOf(b)] = k /\ b < last[k] /\ Flushed.bat[b] = Free}
          /\ LastScanned(Flushed.bat, kind, k) = last[k]
    BY <1>2, Scan
<1>4. last' = last BY <1>1, <1>3 DEF IInv, TypeOK
<1>5. Flushed \in [bat : [Block -> Block \cup {EOFBLOCK}], kind : [Table -> Kinds \cup {"none"}],
                    first : [Files -> Block \cup {EOFBLOCK}], owner : [Block -> Files \cup {NoFile}]]
    BY <1>2 DEF Flushed, IInv, TypeOK
<1>6. free' \in [Kinds -> SUBSET Block] BY <1>1, <1>3
<1>7. TypeOK' BY <1>1, <1>2, <1>4, <1>5, <1>6 DEF IInv, TypeOK
<1>8. Free # EOBBLOCK BY DEF Free, EOBBLOCK
<1>9. MarkersAreLast'
    <2>1. \A b \in Block : bat'[b] = EOBBLOCK <=> bat[b] = EOBBLOCK BY <1>1, <1>2
    <2>2. \A b \in Block, k \in Kinds : kind[TableOf(b)] = k /\ b > last[k] => bat'[b] = Free
        BY <1>1, <1>2
    <2> QED BY <2>1, <2>2, <1>1, <1>4 DEF IInv, MarkersAreLast, TypeOK
<1>10. NewTablesAreFree' BY <1>1, <1>2, <1>4 DEF IInv, NewTablesAreFree
<1>11. FreeIsListed' BY <1>1, <1>3, <1>4 DEF FreeIsListed
<1>12. UnmarkedIsOnDisk' BY <1>1, <1>2, <1>4 DEF UnmarkedIsOnDisk
<1>13. StepIsSane' /\ \A f \in Files : HeadOf(f)' = HeadOf(f)
    BY <1>1 DEF IInv, StepIsSane, HeadOf
<1>14. \A b \in Owned \cup System : bat'[b] = bat[b]
    BY <1>1, <1>2, SystemBlocks DEF IInv, OwnedIsUsed, Owned
<1>15. OwnedIsUsed' /\ ChainsAreSeparate' BY <1>1, <1>13, <1>14, ChainsStay
<1> QED BY <1>7, <1>9, <1>10, <1>11, <1>12, <1>13, <1>15 DEF IInv

-----------------------------------------------------------------------------
LEMMA NextInv == IInv /\ [Next]_vars => IInv'
<1> SUFFICES ASSUME IInv, [Next]_vars PROVE IInv'
    OBVIOUS
<1>1. CASE UNCHANGED vars
    <2>1. TypeOK' BY <1>1 DEF vars, tables, IInv, TypeOK
    <2>2. Allocator'
        BY <1>1 DEF vars, tables, IInv, Allocator, MarkersAreLast, NewTablesAreFree, FreeIsListed,
                    UnmarkedIsOnDisk
    <2>3. StepIsSane' /\ \A f \in Files : HeadOf(f)' = HeadOf(f)
        BY <1>1 DEF vars, tables, IInv, StepIsSane, HeadOf
    <2>4. OwnedIsUsed' /\ ChainsAreSeparate' BY <1>1, <2>3, ChainsStay DEF vars, tables
    <2> QED BY <2>1, <2>2, <2>3, <2>4 DEF IInv, Allocator
<1>2. CASE Next
    BY <1>2, TruncateStep, DeleteStep, ShrinkStep, UnlinkStep, CloseStep, WriteStep, FlushStep, ReloadStep
    DEF Next
<1> QED BY <1>1, <1>2

LEMMA SpecInv == Spec => []IInv
<1>1. Init => IInv BY InitInv
<1>2. IInv /\ [Next]_vars => IInv' BY NextInv
<1> QED BY <1>1, <1>2, PTL DEF Spec

\* Type correctness of the tables, the lists and the operation in progress.
THEOREM TableTyping == Spec => []TypeOK
<1>1. IInv => TypeOK BY DEF IInv
<1> QED BY <1>1, SpecInv, PTL

\* No block is ever in the chains of two files, nor twice in one: for any files and
\* any number of tables, whatever is written, deleted, flushed and loaded again.
THEOREM ChainsStaySeparate == Spec => []ChainsAreSeparate
<1>1. IInv => ChainsAreSeparate BY DEF IInv
<1> QED BY <1>1, SpecInv, PTL

\* A block a file has is in use in its table, and never one of the volume's own.
THEOREM OwnedBlocksAreUsed == Spec => []OwnedIsUsed
<1>1. IInv => OwnedIsUsed BY DEF IInv
<1> QED BY <1>1, SpecInv, PTL

\* The lists and the markers in memory are what a scan of the tables would find.
THEOREM AllocatorIsScan == Spec => []AllocatorMatchesTables
<1>1. IInv => AllocatorMatchesTables
    <2> SUFFICES ASSUME IInv, NEW k \in Kinds
                 PROVE  /\ free[k] = Freed(bat, kind, k)
                        /\ last[k] = LastScanned(bat, kind, k)
                        /\ bat[last[k]] = EOBBLOCK
        BY DEF AllocatorMatchesTables
    <2>1. bat \in [Block -> Block \cup {EOFBLOCK}] BY DEF IInv, TypeOK
    <2> QED BY <2>1, Scan DEF IInv, FreeIsListed, MarkersAreLast
<1> QED BY <1>1, SpecInv, PTL
-----------------------------------------------------------------------------
(* The walk through the tables *)

\* Every nonempty set of naturals has a least element: the intervals from 0 are
\* finite sets, which strict inclusion orders well.
LEMMA LeastElement ==
    ASSUME NEW T, T \subseteq Nat, T # {}
    PROVE  \E m \in T : \A n \in T : m <= n
<1> DEFINE Upto == {0 .. n : n \in T}
<1>1. Upto \subseteq FiniteSubsetsOf(Nat)
    <2>1. ASSUME NEW n \in T PROVE 0 .. n \in SUBSET Nat /\ IsFiniteSet(0 .. n)
        BY FS_Interval
    <2> QED BY <2>1 DEF FiniteSubsetsOf
<1>2. Upto # {}
    OBVIOUS
<1>3. PICK u \in Upto : \A w \in Upto : ~(<<w, u>> \in StrictSubsetOrdering(Nat))
    <2> HIDE DEF Upto
    <2> QED BY <1>1, <1>2, FS_StrictSubsetOrderingWellFounded, WFMin, Zenon
<1>4. PICK m \in T : u = 0 .. m
    OBVIOUS
<1>5. ASSUME NEW n \in T, n < m PROVE FALSE
    <2>1. 0 .. n \in SUBSET Nat /\ 0 .. m \in SUBSET Nat /\ 0 .. n \subseteq 0 .. m /\ 0 .. n # 0 .. m
        <3>1. m \in 0 .. m /\ m \notin 0 .. n /\ m \in Nat /\ n \in Nat
            BY <1>5
        <3> QED BY <3>1, <1>5
    <2>2. <<0 .. n, 0 .. m>> \in StrictSubsetOrdering(Nat)
        BY <2>1 DEF StrictSubsetOrdering
    <2> QED BY <1>3, <1>4, <2>2
<1> QED BY <1>5

\* Induction, for a set of naturals.
LEMMA Induction ==
    ASSUME NEW T, 0 \in T, \A n \in Nat : n \in T => n + 1 \in T
    PROVE  Nat \subseteq T
<1> SUFFICES ASSUME Nat \ T # {} PROVE FALSE
    OBVIOUS
<1>1. PICK m \in Nat \ T : \A n \in Nat \ T : m <= n
    BY LeastElement
<1>2. m # 0 /\ m - 1 \in Nat /\ m - 1 \in T
    BY <1>1
<1> QED BY <1>1, <1>2

\* g is the walk through the tables t for its first m steps.
Approx(t, m, g) == g[0] = Nowhere /\ \A n \in 0 .. m - 1 : g[n + 1] = Onward(t, g[n])

LEMMA ApproxExists == ASSUME NEW t PROVE \A m \in Nat : \E g : Approx(t, m, g)
<1> DEFINE T == {m \in Nat : \E g : Approx(t, m, g)}
<1>1. 0 \in T
    <2>1. Approx(t, 0, [n \in {0} |-> Nowhere])
        BY DEF Approx
    <2> QED BY <2>1
<1>2. ASSUME NEW m \in Nat, m \in T PROVE m + 1 \in T
    <2>1. PICK g : Approx(t, m, g)
        BY <1>2
    <2> DEFINE h == [n \in 0 .. m + 1 |-> IF n <= m THEN g[n] ELSE Onward(t, g[m])]
    <2>2. h[0] = Nowhere
        BY <2>1 DEF Approx
    <2>3. ASSUME NEW n \in 0 .. m PROVE h[n + 1] = Onward(t, h[n])
        BY <2>1 DEF Approx
    <2>4. Approx(t, m + 1, h)
        BY <2>2, <2>3 DEF Approx
    <2> QED BY <2>4
<1> HIDE DEF T
<1>3. Nat \subseteq T
    BY <1>1, <1>2, Induction
<1> QED BY <1>3 DEF T

\* Two approximations agree as far as both go.
LEMMA ApproxAgree ==
    ASSUME NEW t, NEW m \in Nat, NEW g, Approx(t, m, g), NEW k \in Nat, NEW h, Approx(t, k, h)
    PROVE  \A n \in Nat : n <= m /\ n <= k => g[n] = h[n]
<1> DEFINE T == {n \in Nat : n <= m /\ n <= k => g[n] = h[n]}
<1>1. 0 \in T
    BY DEF Approx
<1>2. ASSUME NEW n \in Nat, n \in T PROVE n + 1 \in T
    BY <1>2 DEF Approx
<1> HIDE DEF T
<1>3. Nat \subseteq T
    BY <1>1, <1>2, Induction
<1> QED BY <1>3 DEF T

\* The walks through t follow their recursive definition: there is a function that
\* does, put together from the approximations.
LEMMA WalkEquation ==
    ASSUME NEW t
    PROVE  /\ Walk(t)[0] = Nowhere
           /\ \A n \in Nat : Walk(t)[n + 1] = Onward(t, Walk(t)[n])
<1> DEFINE A(n) == CHOOSE g : Approx(t, n, g)
           G == [n \in Nat |-> A(n)[n]]
           W(w) == w = [n \in Nat |-> IF n = 0 THEN Nowhere ELSE Onward(t, w[n - 1])]
<1>1. ASSUME NEW n \in Nat PROVE Approx(t, n, A(n))
    BY ApproxExists
<1> HIDE DEF A
<1>2. G[0] = Nowhere
    BY <1>1 DEF Approx
<1>3. ASSUME NEW n \in Nat PROVE G[n + 1] = Onward(t, G[n])
    <2>1. A(n + 1)[n + 1] = Onward(t, A(n + 1)[n])
        BY <1>1 DEF Approx
    <2>2. A(n + 1)[n] = A(n)[n]
        BY <1>1, ApproxAgree
    <2> QED BY <2>1, <2>2
<1>4. W(G)
    <2>1. ASSUME NEW n \in Nat PROVE G[n] = IF n = 0 THEN Nowhere ELSE Onward(t, G[n - 1])
        <3>1. CASE n = 0
            BY <1>2, <3>1
        <3>2. CASE n # 0
            <4>1. n - 1 \in Nat /\ (n - 1) + 1 = n
                BY <3>2
            <4>2. G[(n - 1) + 1] = Onward(t, G[n - 1])
                BY <1>3, <4>1
            <4> QED BY <3>2, <4>1, <4>2
        <3> QED BY <3>1, <3>2
    <2>2. G = [n \in Nat |-> G[n]]
        OBVIOUS
    <2> HIDE DEF G
    <2> QED BY <2>1, <2>2
<1>5. Walk(t) = CHOOSE w : W(w)
    BY DEF Walk
<1> HIDE DEF G
<1>6. W(Walk(t))
    <2> HIDE DEF W
    <2> QED BY <1>4, <1>5
<1> QED BY <1>6
-----------------------------------------------------------------------------
\* The entries t lead from h through the blocks of s, in this order, to the end of
\* a file.
IsChain(t, h, s) ==
    /\ s \in Seq(Block)
    /\ h = IF s = <<>> THEN EOFBLOCK ELSE s[1]
    /\ \A i \in 1 .. Len(s) : t[s[i]] = IF i = Len(s) THEN EOFBLOCK ELSE s[i + 1]

Members(s) == {s[i] : i \in 1 .. Len(s)}
Distinct(s) == \A i, j \in 1 .. Len(s) : s[i] = s[j] => i = j

\* Behind its first block a chain goes on as a chain.
LEMMA TailIsChain ==
    ASSUME NEW t, NEW h, NEW s, IsChain(t, h, s), s # <<>>
    PROVE  /\ IsChain(t, t[h], Tail(s)) /\ h = s[1] /\ h \in Block
           /\ Distinct(s) => Distinct(Tail(s)) /\ Members(Tail(s)) = Members(s) \ {h}
<1> DEFINE r == Tail(s)
<1>1. s \in Seq(Block) /\ h = s[1] /\ Len(s) \in Nat /\ Len(s) # 0
    BY EmptySeq, LenProperties DEF IsChain
<1>2. r \in Seq(Block) /\ Len(r) = Len(s) - 1 /\ \A i \in 1 .. Len(r) : r[i] = s[i + 1]
    BY <1>1, HeadTailProperties
<1>3. r = <<>> <=> Len(s) = 1
    <2> HIDE DEF r
    <2>1. r = <<>> <=> Len(r) = 0
        BY <1>2, EmptySeq
    <2> QED BY <1>1, <1>2, <2>1
<1>4. h \in Block
    <2>1. 1 \in 1 .. Len(s)
        BY <1>1
    <2> QED BY <1>1, <2>1, ElementOfSeq
<1> HIDE DEF r
<1>5. t[h] = IF r = <<>> THEN EOFBLOCK ELSE r[1]
    <2>1. 1 \in 1 .. Len(s)
        BY <1>1
    <2>2. t[h] = IF 1 = Len(s) THEN EOFBLOCK ELSE s[1 + 1]
        BY <1>1, <2>1 DEF IsChain
    <2>3. ASSUME Len(s) # 1 PROVE 1 \in 1 .. Len(r)
        BY <1>1, <1>2, <2>3
    <2> QED BY <1>2, <1>3, <2>2, <2>3
<1>6. ASSUME NEW i \in 1 .. Len(r) PROVE t[r[i]] = IF i = Len(r) THEN EOFBLOCK ELSE r[i + 1]
    <2>1. i + 1 \in 1 .. Len(s) /\ (i + 1 = Len(s) <=> i = Len(r)) /\ r[i] = s[i + 1]
        BY <1>1, <1>2
    <2>2. t[s[i + 1]] = IF i + 1 = Len(s) THEN EOFBLOCK ELSE s[(i + 1) + 1]
        BY <2>1 DEF IsChain
    <2>3. ASSUME i # Len(r) PROVE i + 1 \in 1 .. Len(r)
        BY <1>1, <1>2, <2>3
    <2>4. i # Len(r) => r[i + 1] = s[(i + 1) + 1]
        BY <1>2, <2>3
    <2> QED BY <2>1, <2>2, <2>4
<1>7. ASSUME Distinct(s) PROVE Distinct(r) /\ Members(r) = Members(s) \ {h}
    <2>1. Distinct(r)
        <3> SUFFICES ASSUME NEW i \in 1 .. Len(r), NEW j \in 1 .. Len(r), r[i] = r[j] PROVE i = j
            BY DEF Distinct
        <3>1. i + 1 \in 1 .. Len(s) /\ j + 1 \in 1 .. Len(s) /\ s[i + 1] = s[j + 1]
            BY <1>1, <1>2
        <3>2. i + 1 = j + 1
            BY <1>7, <3>1 DEF Distinct
        <3> QED BY <3>2
    <2>2. ASSUME NEW x \in Members(r) PROVE x \in Members(s) \ {h}
        <3>1. PICK i \in 1 .. Len(r) : x = r[i]
            BY DEF Members
        <3>2. 1 \in 1 .. Len(s) /\ i + 1 \in 1 .. Len(s) /\ i + 1 # 1 /\ x = s[i + 1]
            BY <1>1, <1>2, <3>1
        <3> QED BY <1>1, <1>7, <3>2 DEF Distinct, Members
    <2>3. ASSUME NEW x \in Members(s) \ {h} PROVE x \in Members(r)
        <3>1. PICK i \in 1 .. Len(s) : x = s[i]
            BY DEF Members
        <3>2. i # 1
            BY <1>1, <3>1
        <3>3. i - 1 \in 1 .. Len(r) /\ r[i - 1] = s[(i - 1) + 1] /\ (i - 1) + 1 = i
            BY <1>1, <1>2, <3>2
        <3> QED BY <3>1, <3>3 DEF Members
    <2> QED BY <2>1, <2>2, <2>3
<1>8. IsChain(t, t[h], r)
    BY <1>2, <1>5, <1>6 DEF IsChain
<1> QED BY <1>1, <1>4, <1>7, <1>8 DEF r

\* A block that is linked to the last one of a chain is its new end.
LEMMA AppendIsChain ==
    ASSUME NEW t, NEW u, NEW h, NEW s, IsChain(t, h, s), NEW b \in Block, u[b] = EOFBLOCK,
           \A i \in 1 .. Len(s) : u[s[i]] = IF i = Len(s) THEN b ELSE t[s[i]]
    PROVE  /\ IsChain(u, IF s = <<>> THEN b ELSE h, Append(s, b))
           /\ Members(Append(s, b)) = Members(s) \cup {b}
           /\ Distinct(s) /\ b \notin Members(s) => Distinct(Append(s, b))
<1> DEFINE r == Append(s, b)
<1>1. s \in Seq(Block) /\ Len(s) \in Nat /\ (s = <<>> <=> Len(s) = 0)
    BY EmptySeq, LenProperties DEF IsChain
<1>2. /\ r \in Seq(Block) /\ r # <<>> /\ Len(r) = Len(s) + 1
      /\ \A i \in 1 .. Len(s) : r[i] = s[i]
      /\ r[Len(s) + 1] = b
    BY <1>1, AppendProperties
<1> HIDE DEF r
<1>3. r[1] = IF s = <<>> THEN b ELSE h
    <2>1. CASE s = <<>>
        BY <1>1, <1>2, <2>1
    <2>2. CASE s # <<>>
        <3>1. 1 \in 1 .. Len(s)
            BY <1>1, <2>2
        <3> QED BY <1>2, <2>2, <3>1 DEF IsChain
    <2> QED BY <2>1, <2>2
<1>4. ASSUME NEW i \in 1 .. Len(r) PROVE u[r[i]] = IF i = Len(r) THEN EOFBLOCK ELSE r[i + 1]
    <2>1. CASE i = Len(r)
        BY <1>2, <2>1
    <2>2. CASE i # Len(r)
        <3>1. i \in 1 .. Len(s)
            BY <1>1, <1>2, <2>2
        <3>2. r[i] = s[i] /\ u[s[i]] = IF i = Len(s) THEN b ELSE t[s[i]]
            BY <1>2, <3>1
        <3>3. CASE i = Len(s)
            BY <1>2, <2>2, <3>2, <3>3
        <3>4. CASE i # Len(s)
            <4>1. i + 1 \in 1 .. Len(s)
                BY <1>1, <3>1, <3>4
            <4>2. t[s[i]] = s[i + 1]
                BY <3>1, <3>4 DEF IsChain
            <4>3. r[i + 1] = s[i + 1]
                BY <1>2, <4>1
            <4> QED BY <2>2, <3>2, <3>4, <4>2, <4>3
        <3> QED BY <3>3, <3>4
    <2> QED BY <2>1, <2>2
<1>5. Members(r) = Members(s) \cup {b}
    <2>1. \A i : i \in 1 .. Len(r) <=> i \in 1 .. Len(s) \/ i = Len(s) + 1
        BY <1>1, <1>2
    <2> QED BY <1>2, <2>1 DEF Members
<1>6. ASSUME Distinct(s), b \notin Members(s) PROVE Distinct(r)
    <2> SUFFICES ASSUME NEW i \in 1 .. Len(r), NEW j \in 1 .. Len(r), r[i] = r[j] PROVE i = j
        BY DEF Distinct
    <2>1. \A k \in 1 .. Len(r) : k \in 1 .. Len(s) \/ k = Len(s) + 1
        BY <1>1, <1>2
    <2>2. \A k \in 1 .. Len(s) : r[k] # b
        BY <1>2, <1>6 DEF Members
    <2> QED BY <1>2, <1>6, <2>1, <2>2 DEF Distinct
<1> QED BY <1>2, <1>3, <1>4, <1>5, <1>6 DEF IsChain, r

LEMMA SameChain ==
    ASSUME NEW t, NEW u, NEW h, NEW s, IsChain(t, h, s), \A c \in Members(s) : u[c] = t[c]
    PROVE  IsChain(u, h, s)
BY DEF IsChain, Members

\* A chain of different blocks is as long as there are blocks, at most.
LEMMA DistinctFits ==
    ASSUME NEW s \in Seq(Block), Distinct(s)
    PROVE  Len(s) <= PerBat * Tables
<1>1. PerBat * Tables \in Nat /\ Len(s) \in Nat /\ s \in [1 .. Len(s) -> Block]
    BY SizeAssumption, LenProperties
<1>2. IsFiniteSet(Block) /\ Cardinality(Block) = PerBat * Tables
    BY <1>1, FS_Interval DEF Block
<1>3. IsFiniteSet(1 .. Len(s)) /\ Cardinality(1 .. Len(s)) = Len(s)
    <2> DEFINE n == Len(s)
    <2>1. n \in Nat /\ n \in Int /\ 1 \in Int
        BY <1>1
    <2> HIDE DEF n
    <2>2. IsFiniteSet(1 .. n) /\ Cardinality(1 .. n) = IF 1 > n THEN 0 ELSE n - 1 + 1
        BY <2>1, FS_Interval
    <2>3. IsFiniteSet(1 .. n) /\ Cardinality(1 .. n) = n
        BY <2>1, <2>2
    <2> QED BY <2>3 DEF n
<1>4. s \in Injection(1 .. Len(s), Block)
    BY <1>1 DEF Injection, IsInjective, Distinct
<1> QED BY <1>1, <1>2, <1>3, <1>4, FS_Injection

\* A reader that takes enough steps meets the blocks of the chain.
LEMMA WalkIsChain ==
    ASSUME NEW t
    PROVE  \A n \in Nat : \A h, s : IsChain(t, h, s) /\ Len(s) <= n => Walk(t)[n][h] = s
<1> DEFINE T == {n \in Nat : \A h, s : IsChain(t, h, s) /\ Len(s) <= n => Walk(t)[n][h] = s}
<1>1. 0 \in T
    <2> SUFFICES ASSUME NEW h, NEW s, IsChain(t, h, s), Len(s) <= 0 PROVE Walk(t)[0][h] = s
        OBVIOUS
    <2>1. s = <<>>
        BY EmptySeq, LenProperties DEF IsChain
    <2> QED BY <2>1, WalkEquation DEF IsChain, Nowhere
<1>2. ASSUME NEW n \in Nat, n \in T PROVE n + 1 \in T
    <2> SUFFICES ASSUME NEW h, NEW s, IsChain(t, h, s), Len(s) <= n + 1 PROVE Walk(t)[n + 1][h] = s
        OBVIOUS
    <2>1. Walk(t)[n + 1] = Onward(t, Walk(t)[n])
        BY WalkEquation
    <2>2. CASE s = <<>>
        BY <2>1, <2>2 DEF IsChain, Onward
    <2>3. CASE s # <<>>
        <3> DEFINE r == Tail(s)
        <3>1. IsChain(t, t[h], r) /\ h = s[1] /\ h \in Block
            BY <2>3, TailIsChain
        <3>2. s \in Seq(Block) /\ Len(s) \in Nat
            BY LenProperties DEF IsChain
        <3>3. r \in Seq(Block) /\ Len(r) = Len(s) - 1 /\ \A i \in 1 .. Len(r) : r[i] = s[i + 1]
            BY <2>3, <3>2, HeadTailProperties
        <3> HIDE DEF r
        <3>4. Walk(t)[n][t[h]] = r
            BY <1>2, <3>1, <3>2, <3>3
        <3>5. h # EOFBLOCK
            BY <3>1, SizeAssumption DEF Block, EOFBLOCK
        <3>6. Walk(t)[n + 1][h] = <<h>> \o r
            BY <2>1, <3>1, <3>4, <3>5 DEF Onward
        <3>7. <<h>> \o r = s
            <4>1. <<h>> \in Seq(Block) /\ Len(<<h>>) = 1 /\ <<h>>[1] = h
                BY <3>1
            <4>2. /\ <<h>> \o r \in Seq(Block) /\ Len(<<h>> \o r) = 1 + Len(r)
                  /\ \A i \in 1 .. 1 + Len(r) : (<<h>> \o r)[i] = IF i <= 1 THEN <<h>>[i] ELSE r[i - 1]
                BY <3>3, <4>1, ConcatProperties
            <4>3. Len(<<h>> \o r) = Len(s)
                BY <3>2, <3>3, <4>2
            <4>4. ASSUME NEW i \in 1 .. Len(s) PROVE (<<h>> \o r)[i] = s[i]
                <5>1. i \in 1 .. 1 + Len(r)
                    BY <3>2, <3>3
                <5>2. CASE i = 1
                    BY <3>1, <4>1, <4>2, <5>1, <5>2
                <5>3. CASE i # 1
                    <6>1. i - 1 \in 1 .. Len(r) /\ ~(i <= 1) /\ (i - 1) + 1 = i
                        BY <3>2, <3>3, <5>3
                    <6> QED BY <3>3, <4>2, <5>1, <6>1
                <5> QED BY <5>2, <5>3
            <4> DEFINE q == <<h>> \o r
            <4> HIDE DEF q
            <4>5. q \in Seq(Block) /\ Len(q) = Len(s) /\ \A i \in 1 .. Len(s) : q[i] = s[i]
                BY <4>2, <4>3, <4>4 DEF q
            <4>6. q = s
                BY <3>2, <4>5, SeqEqual
            <4> QED BY <4>6 DEF q
        <3> QED BY <3>6, <3>7
    <2> QED BY <2>2, <2>3
<1> HIDE DEF T
<1>3. Nat \subseteq T
    BY <1>1, <1>2, Induction
<1> QED BY <1>3 DEF T

\* So what is read from a chain's first block is the chain.
LEMMA ChainIsRead ==
    ASSUME NEW t, NEW h, NEW s, IsChain(t, h, s), Distinct(s)
    PROVE  Walk(t)[PerBat * Tables][h] = s
<1>1. PerBat * Tables \in Nat
    BY SizeAssumption
<1>2. Len(s) <= PerBat * Tables
    BY DistinctFits DEF IsChain
<1> QED BY <1>1, <1>2, WalkIsChain
-----------------------------------------------------------------------------
(* The chains of the files *)

\* The blocks of s, each once, are those file f has and what a reader of f meets.
FileChain(f, s) ==
    /\ IsChain(bat, HeadOf(f), s)
    /\ Distinct(s)
    /\ Members(s) = {b \in Block : owner[b] = f}

FilesAreChains == \A f \in Files : FileChain(f, ChainOf(f))

\* A sequence that fits the file after a step is what its readers then meet.
LEMMA NewChain ==
    ASSUME NEW f \in Files, NEW s, IsChain(bat', HeadOf(f)', s), Distinct(s),
           Members(s) = {b \in Block : owner'[b] = f}
    PROVE  ChainOf(f)' = s /\ FileChain(f, ChainOf(f))'
<1>1. Walk(bat')[PerBat * Tables][HeadOf(f)'] = s
    BY ChainIsRead
<1>2. ChainOf(f)' = s
    BY <1>1 DEF ChainOf
<1> QED BY <1>2 DEF FileChain

\* A file whose blocks and whose entries stay keeps its chain.
LEMMA ChainKept ==
    ASSUME NEW f \in Files, FileChain(f, ChainOf(f)), HeadOf(f)' = HeadOf(f),
           \A b \in Block : owner'[b] = f <=> owner[b] = f,
           \A b \in Block : owner[b] = f => bat'[b] = bat[b]
    PROVE  ChainOf(f)' = ChainOf(f) /\ FileChain(f, ChainOf(f))'
<1> DEFINE s == ChainOf(f)
<1>1. IsChain(bat, HeadOf(f), s) /\ Distinct(s) /\ Members(s) = {b \in Block : owner[b] = f}
    BY DEF FileChain
<1> HIDE DEF s
<1>2. Members(s) = {b \in Block : owner'[b] = f}
    BY <1>1
<1>3. IsChain(bat', HeadOf(f)', s)
    BY <1>1, SameChain
<1>4. ChainOf(f)' = s /\ FileChain(f, ChainOf(f))'
    BY <1>1, <1>2, <1>3, NewChain
<1> QED BY <1>4 DEF s

\* A write puts the new block behind the chain of its file.
LEMMA WriteExtends ==
    ASSUME IInv, FilesAreChains, NEW k \in Kinds, NEW b \in Block, WriteBlock(k, b)
    PROVE  /\ FilesAreChains'
           /\ file \in Files /\ b \notin Owned \cup System
           /\ \A f \in Files : ChainOf(f)' = IF f = file THEN Append(ChainOf(f), b) ELSE ChainOf(f)
<1>1. cur \in Block \cup {EOFBLOCK} /\ CanLink(cur) /\ file \in Files
      /\ (step = "write" <=> cur \in Block) /\ (step = "truncated" <=> cur = EOFBLOCK)
    BY FilesAssumption DEF IInv, TypeOK, StepIsSane, WriteBlock, CanLink, Owned, EOFBLOCK, Block
<1>2. GetFreeBlock(k, cur, b) BY DEF WriteBlock
<1>3. b \notin Owned \cup System BY <1>1, <1>2, TakenBlock
<1>4. /\ bat'[b] = EOFBLOCK
      /\ cur \in Block => bat'[cur] = b
      /\ \A c \in Owned \cup System : c # cur => bat'[c] = bat[c]
    BY <1>1, <1>2, TakenIsLinked
<1>5. owner'[b] = file /\ (\A c \in Block : c # b => owner'[c] = owner[c]) /\ owner[b] = NoFile
    BY <1>3 DEF Owned, WriteBlock, IInv, TypeOK
<1>6. \A f \in Files : HeadOf(f)' = IF step = "truncated" /\ f = file THEN b ELSE HeadOf(f)
    BY <1>1 DEF HeadOf, WriteBlock, Goto, IInv, TypeOK
<1>7. \A c \in Block : owner[c] \in Files => c \in Owned /\ c # b
    BY <1>3, FilesAssumption DEF Owned
<1>8. ASSUME NEW f \in Files, f # file PROVE ChainOf(f)' = ChainOf(f) /\ FileChain(f, ChainOf(f))'
    <2>1. HeadOf(f)' = HeadOf(f) BY <1>6, <1>8
    <2>2. \A c \in Block : owner'[c] = f <=> owner[c] = f
        BY <1>5, <1>8, FilesAssumption
    <2>3. ASSUME NEW c \in Block, owner[c] = f PROVE bat'[c] = bat[c]
        <3>1. c # cur
            BY <1>1, <1>8, <2>3 DEF IInv, StepIsSane, EOFBLOCK, Block, WriteBlock
        <3> QED BY <1>4, <1>7, <2>3, <3>1
    <2> QED BY <2>1, <2>2, <2>3, ChainKept DEF FilesAreChains
<1>9. ASSUME NEW g \in Files, g = file
      PROVE  ChainOf(g)' = Append(ChainOf(g), b) /\ FileChain(g, ChainOf(g))'
    <2> DEFINE s == ChainOf(g)
    <2>1. IsChain(bat, HeadOf(g), s) /\ Distinct(s) /\ Members(s) = {c \in Block : owner[c] = g}
        BY DEF FilesAreChains, FileChain
    <2> HIDE DEF s
    <2>2. s \in Seq(Block) /\ Len(s) \in Nat /\ (s = <<>> <=> Len(s) = 0)
        BY <2>1, EmptySeq, LenProperties DEF IsChain
    <2>3. ASSUME NEW i \in 1 .. Len(s) PROVE bat'[s[i]] = IF i = Len(s) THEN b ELSE bat[s[i]]
        <3>1. s[i] \in Block /\ owner[s[i]] = g
            BY <2>1 DEF Members
        <3>2. step # "truncated"
            <4>1. HeadOf(g) # EOFBLOCK
                <5>1. HeadOf(g) = s[1] /\ 1 \in 1 .. Len(s)
                    BY <2>1, <2>2 DEF IsChain
                <5>2. s[1] \in Block
                    BY <5>1, <2>2, ElementOfSeq
                <5> QED BY <5>1, <5>2 DEF Block, EOFBLOCK
            <4> QED BY <1>1, <1>9, <4>1 DEF HeadOf, IInv, StepIsSane
        <3>3. cur \in Block /\ owner[cur] = g /\ bat[cur] = EOFBLOCK
            BY <1>1, <1>9, <3>2 DEF IInv, StepIsSane, WriteBlock
        <3>4. cur = s[Len(s)]
            <4>1. PICK j \in 1 .. Len(s) : cur = s[j]
                BY <2>1, <3>3 DEF Members
            <4>2. ASSUME j # Len(s) PROVE FALSE
                <5>1. j + 1 \in 1 .. Len(s)
                    BY <2>2, <4>2
                <5>2. s[j + 1] \in Block
                    BY <2>2, <5>1, ElementOfSeq
                <5>3. bat[cur] = s[j + 1]
                    BY <2>1, <4>1, <4>2 DEF IsChain
                <5> QED BY <3>3, <5>2, <5>3 DEF Block, EOFBLOCK
            <4> QED BY <4>1, <4>2
        <3>5. CASE i = Len(s)
            BY <1>4, <3>3, <3>4, <3>5
        <3>6. CASE i # Len(s)
            <4>1. Len(s) \in 1 .. Len(s)
                BY <2>2
            <4>2. s[i] # cur
                BY <2>1, <3>4, <3>6, <4>1 DEF Distinct
            <4> QED BY <1>4, <1>7, <3>1, <3>6, <4>2
        <3> QED BY <3>5, <3>6
    <2>4. b \notin Members(s)
        BY <1>5, <2>1, FilesAssumption
    <2> DEFINE r == Append(s, b)
    <2>5. /\ IsChain(bat', IF s = <<>> THEN b ELSE HeadOf(g), r)
          /\ Members(r) = Members(s) \cup {b} /\ Distinct(r)
        BY <1>4, <2>1, <2>3, <2>4, AppendIsChain
    <2> HIDE DEF r
    <2>6. HeadOf(g)' = IF s = <<>> THEN b ELSE HeadOf(g)
        <3>1. step = "truncated" => HeadOf(g) = EOFBLOCK
            BY <1>9 DEF HeadOf, IInv, StepIsSane
        <3>2. step = "write" => s # <<>>
            <4>1. step = "write" => cur \in Members(s)
                BY <1>9, <2>1 DEF IInv, StepIsSane
            <4> QED BY <2>2, <4>1 DEF Members
        <3>3. HeadOf(g) = EOFBLOCK => s = <<>>
            <4>1. ASSUME s # <<>> PROVE HeadOf(g) \in Block
                <5>1. HeadOf(g) = s[1] /\ 1 \in 1 .. Len(s)
                    BY <2>1, <2>2, <4>1 DEF IsChain
                <5> QED BY <5>1, <2>2, ElementOfSeq
            <4> QED BY <4>1 DEF Block, EOFBLOCK
        <3>4. step \in {"truncated", "write"}
            BY DEF WriteBlock
        <3> QED BY <1>1, <1>6, <1>9, <3>1, <3>2, <3>3, <3>4
    <2>7. Members(r) = {c \in Block : owner'[c] = g}
        BY <1>5, <1>9, <2>1, <2>5
    <2>8. ChainOf(g)' = r /\ FileChain(g, ChainOf(g))'
        BY <2>5, <2>6, <2>7, NewChain
    <2> QED BY <2>8 DEF r, s
<1>10. FilesAreChains'
    BY <1>8, <1>9 DEF FilesAreChains
<1> QED BY <1>1, <1>3, <1>8, <1>9, <1>10

\* A block is freed at the front of the chain of its file.
LEMMA FreeDrops ==
    ASSUME IInv, FilesAreChains, ShrinkBlock \/ UnlinkBlock
    PROVE  /\ FilesAreChains'
           /\ file \in Files /\ ChainOf(file) # <<>>
           /\ \A f \in Files : ChainOf(f)' = IF f = file THEN Tail(ChainOf(f)) ELSE ChainOf(f)
<1>1. step \in {"shrink", "unlink"} /\ FreeBlock
    BY DEF ShrinkBlock, UnlinkBlock
<1>2. /\ file \in Files /\ cur \in Block /\ owner[cur] = file /\ HeadOf(file) = cur
      /\ bat[cur] # EOFBLOCK => bat[cur] \in Block
    BY <1>1, FreedIsHead
<1>3. \A f \in Files : HeadOf(f)' = IF f = file THEN bat[cur] ELSE HeadOf(f)
    <2>1. CASE ShrinkBlock
        BY <1>2, <2>1 DEF ShrinkBlock, HeadOf, Goto, IInv, TypeOK
    <2>2. CASE UnlinkBlock
        BY <1>2, <2>2 DEF UnlinkBlock, HeadOf, Goto, Return, IInv, TypeOK, StepIsSane
    <2> QED BY <2>1, <2>2
<1>4. /\ \A c \in Block : c # cur => bat'[c] = bat[c] /\ owner'[c] = owner[c]
      /\ owner'[cur] = NoFile
    BY <1>1, <1>2 DEF FreeBlock, IInv, TypeOK
<1>5. ASSUME NEW f \in Files, f # file PROVE ChainOf(f)' = ChainOf(f) /\ FileChain(f, ChainOf(f))'
    <2>1. HeadOf(f)' = HeadOf(f) BY <1>3, <1>5
    <2>2. \A c \in Block : (owner'[c] = f <=> owner[c] = f) /\ (owner[c] = f => bat'[c] = bat[c])
        BY <1>2, <1>4, <1>5, FilesAssumption
    <2> QED BY <2>1, <2>2, ChainKept DEF FilesAreChains
<1>6. ASSUME NEW g \in Files, g = file
      PROVE  ChainOf(g) # <<>> /\ ChainOf(g)' = Tail(ChainOf(g)) /\ FileChain(g, ChainOf(g))'
    <2> DEFINE s == ChainOf(g)
               r == Tail(s)
    <2>1. IsChain(bat, cur, s) /\ Distinct(s) /\ Members(s) = {c \in Block : owner[c] = g}
        BY <1>2, <1>6 DEF FilesAreChains, FileChain
    <2> HIDE DEF s
    <2>2. s # <<>>
        BY <1>2, <2>1 DEF IsChain, Block, EOFBLOCK
    <2>3. IsChain(bat, bat[cur], r) /\ Distinct(r) /\ Members(r) = Members(s) \ {cur}
        BY <2>1, <2>2, TailIsChain
    <2> HIDE DEF r
    <2>4. \A c \in Members(r) : bat'[c] = bat[c]
        BY <1>4, <2>1, <2>3
    <2>5. HeadOf(g)' = bat[cur]
        BY <1>3, <1>6
    <2>6. IsChain(bat', HeadOf(g)', r)
        BY <2>3, <2>4, <2>5, SameChain
    <2>7. Members(r) = {c \in Block : owner'[c] = g}
        BY <1>2, <1>4, <1>6, <2>1, <2>3, FilesAssumption
    <2>8. ChainOf(g)' = r /\ FileChain(g, ChainOf(g))'
        BY <2>3, <2>6, <2>7, NewChain
    <2> QED BY <2>2, <2>8 DEF r, s
<1>7. FilesAreChains'
    BY <1>5, <1>6 DEF FilesAreChains
<1> QED BY <1>2, <1>5, <1>6, <1>7

\* The steps that begin or end an operation, the flusher and a reload change no chain.
LEMMA OthersKeep ==
    ASSUME IInv, FilesAreChains,
           (\E f \in Files : Truncate(f) \/ Delete(f)) \/ Close \/ Flush \/ Reload \/ UNCHANGED vars
    PROVE  FilesAreChains' /\ \A f \in Files : ChainOf(f)' = ChainOf(f)
<1>1. owner' = owner
    BY DEF Truncate, Delete, Close, Flush, Reload, vars
<1>2. \A g \in Files : HeadOf(g)' = HeadOf(g)
    <2>1. ASSUME NEW f \in Files, Truncate(f) PROVE \A g \in Files : HeadOf(g)' = HeadOf(g)
        BY <2>1 DEF Truncate, Begin, Goto, HeadOf, tables
    <2>2. ASSUME NEW f \in Files, Delete(f) PROVE \A g \in Files : HeadOf(g)' = HeadOf(g)
        BY <2>2 DEF Delete, Begin, Goto, HeadOf, IInv, TypeOK
    <2>3. CASE Close
        BY <2>3 DEF Close, Return, Goto, HeadOf
    <2>4. CASE Flush \/ Reload \/ UNCHANGED vars
        BY <2>4 DEF Flush, Reload, vars, HeadOf
    <2> QED BY <2>1, <2>2, <2>3, <2>4
<1>3. \A c \in Owned : bat'[c] = bat[c]
    <2>1. CASE Reload
        BY <2>1, FlushedTables DEF Reload, IInv, OwnedIsUsed, Owned
    <2>2. CASE ~Reload
        BY <2>2 DEF Truncate, Delete, Close, Flush, vars, tables
    <2> QED BY <2>1, <2>2
<1>4. ASSUME NEW f \in Files PROVE ChainOf(f)' = ChainOf(f) /\ FileChain(f, ChainOf(f))'
    <2>1. \A b \in Block : owner[b] = f => bat'[b] = bat[b]
        BY <1>3, FilesAssumption DEF Owned
    <2> QED BY <1>1, <1>2, <2>1, ChainKept DEF FilesAreChains
<1> QED BY <1>4 DEF FilesAreChains

LEMMA InitChains == Init => FilesAreChains /\ \A f \in Files : ChainOf(f) = <<>>
<1> SUFFICES ASSUME Init, NEW f \in Files PROVE FileChain(f, ChainOf(f)) /\ ChainOf(f) = <<>>
    BY DEF FilesAreChains
<1>1. HeadOf(f) = EOFBLOCK
    BY DEF Init, HeadOf
<1>2. IsChain(bat, HeadOf(f), <<>>) /\ Distinct(<<>>) /\ Members(<<>>) = {}
    BY <1>1, EmptySeq DEF IsChain, Distinct, Members
<1>3. {b \in Block : owner[b] = f} = {}
    BY FilesAssumption DEF Init
<1>4. ChainOf(f) = <<>>
    BY <1>2, ChainIsRead DEF ChainOf
<1> QED BY <1>2, <1>3, <1>4 DEF FileChain

LEMMA NextChains == IInv /\ FilesAreChains /\ [Next]_vars => FilesAreChains'
BY WriteExtends, FreeDrops, OthersKeep DEF Next

LEMMA SpecChains == Spec => []FilesAreChains
<1>1. Init => FilesAreChains BY InitChains
<1> QED BY <1>1, NextChains, SpecInv, PTL DEF Spec

\* The blocks a file got and has not freed are the ones its readers meet, in every
\* state between the locked sections: a write loses none, and neither a truncate
\* that marks no table nor a reload leaves one behind.
THEOREM NothingIsLost == Spec => []OwnedIsReachable
<1>1. FilesAreChains => OwnedIsReachable
    <2> SUFFICES ASSUME FilesAreChains, NEW f \in Files
                 PROVE  {b \in Block : owner[b] = f} = {ChainOf(f)[i] : i \in DOMAIN ChainOf(f)}
        BY DEF OwnedIsReachable
    <2> DEFINE s == ChainOf(f)
    <2>1. s \in Seq(Block) /\ Members(s) = {b \in Block : owner[b] = f}
        BY DEF FilesAreChains, FileChain, IsChain
    <2> HIDE DEF s
    <2>2. DOMAIN s = 1 .. Len(s)
        BY <2>1, LenProperties
    <2>3. {b \in Block : owner[b] = f} = {s[i] : i \in DOMAIN s}
        BY <2>1, <2>2 DEF Members
    <2> QED BY <2>3 DEF s
<1> QED BY <1>1, SpecChains, PTL

ChainsOfFiles == [f \in Files |-> ChainOf(f)]

\* What BlockChains calls used are the blocks that files have.
LEMMA UsedIsOwned ==
    ASSUME FilesAreChains
    PROVE  \A b \in Block : b \in Chains!Used => b \in Owned
<1> SUFFICES ASSUME NEW b \in Block, NEW f \in Files, b \in Chains!Range(ChainOf(f)) PROVE b \in Owned
    BY DEF Chains!Used
<1> DEFINE s == ChainOf(f)
<1>1. s \in Seq(Block) /\ Members(s) = {c \in Block : owner[c] = f}
    BY DEF FilesAreChains, FileChain, IsChain
<1>2. b \in Chains!Range(s)
    OBVIOUS
<1> HIDE DEF s
<1>3. DOMAIN s = 1 .. Len(s)
    BY <1>1, LenProperties
<1>4. b \in Members(s)
    BY <1>2, <1>3 DEF Chains!Range, Members
<1> QED BY <1>1, <1>4, FilesAssumption DEF Owned

\* Each step of the allocator puts one free block at the end of one chain, takes
\* one from the front of one chain, or changes no chain.
LEMMA StepImplements ==
    ASSUME IInv, FilesAreChains, [Next]_vars
    PROVE  Chains!Next \/ ChainsOfFiles' = ChainsOfFiles
<1>1. ASSUME NEW k \in Kinds, NEW b \in Block, WriteBlock(k, b) PROVE Chains!Next
    <2>1. /\ file \in Files /\ b \in Block \ System /\ b \notin Chains!Used
          /\ \A f \in Files : ChainOf(f)' = IF f = file THEN Append(ChainOf(f), b) ELSE ChainOf(f)
        BY <1>1, WriteExtends, UsedIsOwned
    <2>2. Chains!Extend(file, b)
        BY <2>1 DEF Chains!Extend
    <2> QED BY <2>1, <2>2 DEF Chains!Next
<1>2. ASSUME ShrinkBlock \/ UnlinkBlock PROVE Chains!Next
    <2>1. /\ file \in Files /\ ChainOf(file) # <<>>
          /\ \A f \in Files : ChainOf(f)' = IF f = file THEN Tail(ChainOf(f)) ELSE ChainOf(f)
        BY <1>2, FreeDrops
    <2>2. Chains!Drop(file)
        BY <2>1 DEF Chains!Drop
    <2> QED BY <2>1, <2>2 DEF Chains!Next
<1>3. ASSUME \/ \E f \in Files : Truncate(f) \/ Delete(f)
             \/ Close \/ Flush \/ Reload \/ UNCHANGED vars
      PROVE  ChainsOfFiles' = ChainsOfFiles
    BY <1>3, OthersKeep DEF ChainsOfFiles
<1> QED BY <1>1, <1>2, <1>3 DEF Next

\* To its files the allocator is BlockChains: blocks that nobody has come at the end
\* of a chain and go from its front, one at a time (_os_GetFreeBlock_, the shrink and
\* the unlink), and no reload or flush in between changes what a file reads.
THEOREM AllocatorImplements == Spec => ImplementsChains
<1>1. Init => Chains!Init
    BY InitChains DEF Chains!Init
<1>2. IInv /\ FilesAreChains /\ [Next]_vars => [Chains!Next]_[f \in Files |-> ChainOf(f)]
    BY StepImplements DEF ChainsOfFiles
<1> QED BY <1>1, <1>2, SpecInv, SpecChains, PTL DEF Spec, ImplementsChains, Chains!Spec
=============================================================================
