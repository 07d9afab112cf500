--------------------------- MODULE RollbackJournal ---------------------------
(***************************************************************************)
(* The rollback journal of the object-store volume (sack_vfs_os, in        *)
(* src/src/sack/sack.cc).                                                   *)
(*                                                                         *)
(* A volume is one file of blocks.  Blocks are changed in cache slots; the *)
(* first change of a block since the last checkpoint copies the block's    *)
(* clean image to the journal before the changed block may reach the disk. *)
(* A flush writes every changed block and then clears the journal header:  *)
(* that write is the checkpoint.  A crash keeps what is on the disk only,  *)
(* and the next load replays the journal to get the checkpoint back.       *)
(*                                                                         *)
(* Every operation runs under vol->lock, so one program counter describes  *)
(* whoever holds it; a step ends at each write to the file, because a      *)
(* crash may fall between any two of them.                                 *)
(***************************************************************************)
EXTENDS Naturals, Sequences, FiniteSets

CONSTANTS
    Data,           \* segments that hold file, name or directory blocks
    Bats,           \* segments that hold block allocation tables
    RootBat,        \* the BAT that chains the blocks of the journal's own files
    HeaderEntries,  \* rollback entries that fit in the header's block
    MaxEntry,       \* bound: entries one checkpoint interval may use
    MaxVersion      \* bound: block modifications in a behaviour

ASSUME BlocksAssumption ==
    /\ RootBat \in Bats
    /\ Data \cap Bats = {}
    /\ IsFiniteSet(Data) /\ IsFiniteSet(Bats)

ASSUME BoundsAssumption ==
    /\ HeaderEntries \in Nat \ {0}
    /\ MaxEntry \in Nat
    /\ MaxVersion \in Nat

Block == Data \cup Bats

\* What a block holds: the version of its client data (0 is all zeros) and,
\* in the root BAT, the blocks chained to the big journal and to the entry file
\* beyond the first block of each.
Content == [v : Nat, j : Nat, e : Nat]
Zero    == [v |-> 0, j |-> 0, e |-> 0]

Index == 0 .. MaxEntry
\* at is the journal block the copy was put in; the entry on disk does not have
\* it, the replay recomputes it (BigSector below).
Entry == [blk : Block, zero : BOOLEAN, at : Nat]

VARIABLES
    disk, hdrDisk, entDisk, jrnlDisk,          \* what a crash keeps
    buf, clean, dirty, dirty2,                 \* cache slots: the two images and the two flags
    hdr, ent, journaled, pending, rec,         \* vol->journal and its cached header block
    jlen, elen,                                \* blockChainLength of the two journal files
    pc, flushing,                              \* where the lock holder is
    version, ckpt                              \* last version written; ghost: disk at the checkpoint

diskVars  == <<disk, hdrDisk, entDisk, jrnlDisk>>
cacheVars == <<buf, clean, dirty, dirty2>>
jrnlVars  == <<hdr, ent, journaled, pending, rec, jlen, elen>>
vars == <<diskVars, cacheVars, jrnlVars, pc, flushing, version, ckpt>>

CleanHeader == [dirty |-> FALSE, nextEntry |-> 0, nextBlock |-> 0]

Header == [dirty : BOOLEAN, nextEntry : Nat, nextBlock : Nat]

DiskTypeOK ==
    /\ disk \in [Block -> Content] /\ ckpt \in [Block -> Content]
    /\ hdrDisk \in Header
    /\ entDisk \in [Index -> Entry]
    /\ jrnlDisk \in [Index -> Content]

CacheTypeOK ==
    /\ buf \in [Block -> Content] /\ clean \in [Block -> Content]
    /\ dirty \subseteq Block /\ dirty2 \subseteq Block /\ flushing \subseteq Block

JournalTypeOK ==
    /\ hdr \in Header
    /\ ent \in [Index -> Entry]
    /\ journaled \subseteq Block
    /\ pending \in Seq(Block) /\ rec \in Nat
    /\ jlen \in Nat /\ elen \in Nat

\* The steps of vfs_os_record_rollback that deal with the record Cur.
Recording == {"seekEntry", "seekCopy", "writeCopy", "writeEntry"}

ControlTypeOK ==
    /\ pc \in {"free", "op", "writeHeader", "flush"} \cup Recording
    /\ pc \in Recording => rec \in 1 .. Len(pending)
    /\ version \in Nat

TypeOK == DiskTypeOK /\ CacheTypeOK /\ JournalTypeOK /\ ControlTypeOK

Init ==
    /\ disk \in [Block -> {Zero, [Zero EXCEPT !.v = 1]}]
    /\ disk[RootBat] # Zero
    /\ ckpt = disk /\ buf = disk /\ clean = disk
    /\ dirty = {} /\ dirty2 = {}
    /\ hdr = CleanHeader /\ hdrDisk = CleanHeader
    /\ ent = [i \in Index |-> [blk |-> RootBat, zero |-> FALSE, at |-> 0]]
    /\ entDisk = ent
    /\ jrnlDisk = [i \in Index |-> Zero]
    /\ journaled = {} /\ pending = <<>> /\ rec = 1
    /\ jlen = 1 /\ elen = 0
    /\ pc = "free" /\ flushing = {}
    /\ version = 1
-----------------------------------------------------------------------------
\* The block whose clean image is being copied to the journal.
Cur == pending[rec]

\* One operation of the volume's API takes vol->lock ...
LockVolume ==
    /\ pc = "free"
    /\ pc' = "op"
    /\ UNCHANGED <<diskVars, cacheVars, jrnlVars, flushing, version, ckpt>>

\* ... and releases it.
UnlockVolume ==
    /\ pc = "op"
    /\ pc' = "free"
    /\ UNCHANGED <<diskVars, cacheVars, jrnlVars, flushing, version, ckpt>>

\* mutant: pJournaled is not consulted.
FirstRecordAgain(b) == b \notin dirty /\ b \notin dirty2

\* vfs_os_smudge_cache reaches vfs_os_record_rollback, which finds the segment
\* neither pending nor in pJournaled.
FirstRecord(b) == b \notin dirty /\ b \notin dirty2 /\ b \notin journaled

\* The operation changes a cached block and smudges its slot.  If the block
\* needs no record the operation goes on; otherwise vfs_os_record_rollback
\* marks it journaled, sets the header's dirty flag and starts on its entry.
Modify(b) ==
    /\ pc = "op"
    /\ version < MaxVersion
    /\ version' = version + 1
    /\ buf' = [buf EXCEPT ![b].v = version + 1]
    /\ dirty' = dirty \cup {b}
    /\ IF FirstRecord(b)
         THEN /\ hdr.nextEntry + 1 < MaxEntry
              /\ journaled' = journaled \cup {b}
              /\ pending' = <<b>> /\ rec' = 1
              /\ hdr' = [hdr EXCEPT !.dirty = TRUE]
              /\ pc' = "seekEntry"
         ELSE UNCHANGED <<journaled, pending, rec, hdr, pc>>
    /\ UNCHANGED <<diskVars, clean, dirty2, ent, jlen, elen, flushing, ckpt>>

\* Seek to entries[nextEntry++] of the rollback file.  When that falls in a
\* block the file does not have yet, vfs_os_FSEEK_v2 (flush_BAT_caches FALSE)
\* chains one: the root BAT is changed and smudged, which nests into
\* vfs_os_record_rollback and is queued without entering pJournaled.
SeekEntry ==
    /\ pc = "seekEntry"
    /\ LET i == hdr.nextEntry
           extend == i >= HeaderEntries /\ elen = 0
           zero == clean[Cur] = Zero
       IN /\ hdr' = [hdr EXCEPT !.nextEntry = i + 1]
          /\ ent' = [ent EXCEPT ![i] = [blk |-> Cur, zero |-> zero, at |-> hdr.nextBlock]]
          /\ pc' = IF zero THEN "writeEntry" ELSE "seekCopy"
          /\ IF extend
               THEN /\ elen' = 1
                    /\ buf' = [buf EXCEPT ![RootBat].e = 1]
                    /\ dirty' = dirty \cup {RootBat}
                    /\ pending' = IF FirstRecord(RootBat) THEN Append(pending, RootBat) ELSE pending
               ELSE UNCHANGED <<elen, buf, dirty, pending>>
    /\ UNCHANGED <<diskVars, clean, dirty2, journaled, rec, jlen, flushing, version, ckpt>>

\* mutant: the journal file is extended with flush_BAT_caches FALSE.
SeekCopyLazily ==
    /\ pc = "seekCopy"
    /\ pc' = "writeCopy"
    /\ IF hdr.nextBlock >= jlen
         THEN /\ jlen' = jlen + 1
              /\ buf' = [buf EXCEPT ![RootBat].j = @ + 1]
              /\ dirty' = dirty \cup {RootBat}
         ELSE UNCHANGED <<jlen, buf, dirty>>
    /\ UNCHANGED <<diskVars, clean, dirty2, hdr, ent, journaled, pending, rec, elen,
                   flushing, version, ckpt>>

\* Seek to journal block nextBlock++.  When the journal file is too short a
\* block is chained with flush_BAT_caches TRUE: the root BAT's slot is written
\* as it stands, its clean image replaced and both its flags reset.
SeekCopy ==
    /\ pc = "seekCopy"
    /\ pc' = "writeCopy"
    /\ IF hdr.nextBlock >= jlen
         THEN LET bat == [buf[RootBat] EXCEPT !.j = @ + 1]
              IN /\ jlen' = jlen + 1
                 /\ buf' = [buf EXCEPT ![RootBat] = bat]
                 /\ disk' = [disk EXCEPT ![RootBat] = bat]
                 /\ clean' = [clean EXCEPT ![RootBat] = bat]
                 /\ dirty' = dirty \ {RootBat}
                 /\ dirty2' = dirty2 \ {RootBat}
         ELSE UNCHANGED <<jlen, buf, disk, clean, dirty, dirty2>>
    /\ UNCHANGED <<hdrDisk, entDisk, jrnlDisk, hdr, ent, journaled, pending, rec, elen,
                   flushing, version, ckpt>>

\* The clean image goes to the journal block, which is flushed at once.
WriteCopy ==
    /\ pc = "writeCopy"
    /\ jrnlDisk' = [jrnlDisk EXCEPT ![hdr.nextBlock] = clean[Cur]]
    /\ hdr' = [hdr EXCEPT !.nextBlock = @ + 1]
    /\ pc' = "writeEntry"
    /\ UNCHANGED <<disk, hdrDisk, entDisk, cacheVars, ent, journaled, pending, rec, jlen, elen,
                   flushing, version, ckpt>>

InHeader(i) == i < HeaderEntries

\* mutant: the test of ++nextRecord against the count is off by one.
WriteEntryPastEnd ==
    /\ pc = "writeEntry"
    /\ rec <= Len(pending)
    /\ rec' = rec + 1 /\ pc' = "seekEntry"
    /\ UNCHANGED <<diskVars, cacheVars, hdr, ent, journaled, pending, jlen, elen,
                   flushing, version, ckpt>>

\* An entry outside the header's block is flushed with its own block, and the
\* next pending record is taken up, if there is one.
WriteEntry ==
    /\ pc = "writeEntry"
    /\ entDisk' = IF InHeader(hdr.nextEntry - 1) THEN entDisk
                  ELSE [i \in Index |-> IF InHeader(i) THEN entDisk[i] ELSE ent[i]]
    /\ IF rec < Len(pending)
         THEN rec' = rec + 1 /\ pc' = "seekEntry" /\ UNCHANGED pending
         ELSE rec' = 1 /\ pc' = "writeHeader" /\ pending' = <<>>
    /\ UNCHANGED <<disk, hdrDisk, jrnlDisk, cacheVars, hdr, ent, journaled, jlen, elen,
                   flushing, version, ckpt>>

\* The header's block is flushed last: only now do the new entries count.
WriteHeader ==
    /\ pc = "writeHeader"
    /\ hdrDisk' = hdr
    /\ entDisk' = [i \in Index |-> IF InHeader(i) THEN ent[i] ELSE entDisk[i]]
    /\ pc' = "op"
    /\ UNCHANGED <<disk, jrnlDisk, cacheVars, jrnlVars, flushing, version, ckpt>>

\* One changed slot reaches the disk and becomes clean.
WriteSlot(b) ==
    /\ disk' = [disk EXCEPT ![b] = buf[b]]
    /\ clean' = [clean EXCEPT ![b] = buf[b]]
    /\ dirty' = dirty \ {b}
    /\ dirty2' = dirty2 \ {b}

\* A seek of the operation claims the slot of a changed block: the block is
\* written, and read back into a slot the next time it is wanted.
Evict(b) ==
    /\ pc = "op"
    /\ b \in dirty \cup dirty2
    /\ WriteSlot(b)
    /\ UNCHANGED <<hdrDisk, entDisk, jrnlDisk, buf, jrnlVars, pc, flushing, version, ckpt>>

\* mutant: the second flag only remembers the last pass.
FlusherAgeForgets ==
    /\ pc = "free"
    /\ dirty # {}
    /\ dirty2' = dirty
    /\ dirty' = {}
    /\ UNCHANGED <<diskVars, buf, clean, jrnlVars, pc, flushing, version, ckpt>>

\* A pass of volume_flusher that finds changes: it ages them and sleeps.
FlusherAge ==
    /\ pc = "free"
    /\ dirty # {}
    /\ dirty2' = dirty2 \cup dirty
    /\ dirty' = {}
    /\ UNCHANGED <<diskVars, buf, clean, jrnlVars, pc, flushing, version, ckpt>>

\* mutant: the flusher does not wait for a pass without changes.
FlusherBeginEarly ==
    /\ pc = "free"
    /\ flushing' = dirty2 \ dirty
    /\ pc' = "flush"
    /\ UNCHANGED <<diskVars, cacheVars, jrnlVars, version, ckpt>>

\* A pass of volume_flusher that finds none keeps the lock and flushes.
FlusherBegin ==
    /\ pc = "free"
    /\ dirty = {}
    /\ flushing' = dirty2
    /\ pc' = "flush"
    /\ UNCHANGED <<diskVars, cacheVars, jrnlVars, version, ckpt>>

\* sack_vfs_os_flush_volume does not wait for the volume to be idle.
FlushVolumeBegin ==
    /\ pc = "free"
    /\ flushing' = dirty \cup dirty2
    /\ pc' = "flush"
    /\ UNCHANGED <<diskVars, cacheVars, jrnlVars, version, ckpt>>

FlushBlock(b) ==
    /\ pc = "flush"
    /\ b \in flushing
    /\ WriteSlot(b)
    /\ flushing' = flushing \ {b}
    /\ UNCHANGED <<hdrDisk, entDisk, jrnlDisk, buf, jrnlVars, pc, version, ckpt>>

\* vfs_os_empty_rollback: if anything was journaled the header is cleared and
\* flushed, which makes the blocks on the disk the new checkpoint.  The lock is
\* then released.
EmptyRollback ==
    /\ pc = "flush"
    /\ flushing = {}
    /\ IF hdr.dirty
         THEN /\ journaled' = {}
              /\ hdr' = CleanHeader
              /\ hdrDisk' = CleanHeader
              /\ entDisk' = [i \in Index |-> IF InHeader(i) THEN ent[i] ELSE entDisk[i]]
              /\ ckpt' = disk
         ELSE UNCHANGED <<journaled, hdr, hdrDisk, entDisk, ckpt>>
    /\ pc' = "free"
    /\ UNCHANGED <<disk, jrnlDisk, cacheVars, ent, pending, rec, jlen, elen, flushing, version>>

Record == SeekEntry \/ SeekCopy \/ WriteCopy \/ WriteEntry \/ WriteHeader

Next ==
    \/ LockVolume \/ UnlockVolume
    \/ \E b \in Block : Modify(b) \/ Evict(b) \/ FlushBlock(b)
    \/ Record
    \/ FlusherAge \/ FlusherBegin \/ FlushVolumeBegin \/ EmptyRollback

Spec == Init /\ [][Next]_vars
-----------------------------------------------------------------------------
\* The entries a load would replay if the program stopped here.
Committed == IF hdrDisk.dirty THEN 0 .. hdrDisk.nextEntry - 1 ELSE {}

EntriesOf(b) == {i \in Committed : entDisk[i].blk = b}

\* The image the entry was made with.
Image(i) == IF entDisk[i].zero THEN Zero ELSE jrnlDisk[entDisk[i].at]

\* mutant: a zero entry is taken to have a journal block.
BigSectorPerEntry(i) == i

\* vfs_os_process_rollback does not store at: it counts the journal blocks it
\* has passed, one for each entry that is not zero and one for each BAT entry.
BigSector(i) == Cardinality({k \in 0 .. i - 1 : entDisk[k].blk \in Bats \/ ~entDisk[k].zero})

ReplayImage(i) == IF entDisk[i].zero THEN Zero ELSE jrnlDisk[BigSector(i)]

\* What the replay leaves in a block: the last entry wins.
Replayed(b) ==
    IF EntriesOf(b) = {} THEN disk[b]
    ELSE ReplayImage(CHOOSE i \in EntriesOf(b) : \A k \in EntriesOf(b) : k <= i)

\* The conditions under which the replay reads back what was recorded: the
\* entries all lie in the header's block, and no BAT was recorded as zero.
PlainJournal ==
    /\ hdrDisk.nextEntry <= HeaderEntries
    /\ \A i \in Committed : entDisk[i].blk \in Bats => ~entDisk[i].zero

\* Write-ahead rule for vfs_os_record_rollback: at every point where the program
\* may stop, a data block that no longer holds its checkpoint image on the disk
\* has a committed entry, and every committed entry of it is that image.
DataRecoverable ==
    \A b \in Data :
        /\ disk[b] # ckpt[b] => EntriesOf(b) # {}
        /\ \A i \in EntriesOf(b) : Image(i) = ckpt[b]

\* vfs_os_process_rollback, counting journal blocks as it does, gives every data
\* block its checkpoint image back wherever the program stopped, as long as the
\* journal is plain.
ReplayRestoresData == PlainJournal => \A b \in Data : Replayed(b) = ckpt[b]

\* The journal block of every committed entry is chained to the journal file by
\* the root BAT that is on the disk (flush_BAT_caches of vfs_os_FSEEK_v2).
CopyReachable ==
    \A i \in Committed : ~entDisk[i].zero => entDisk[i].at <= disk[RootBat].j

\* A block whose cached image differs from the disk is flagged, so that an
\* eviction or a flush will write it: no path between the flusher's two flags,
\* the evictions and the forced BAT flush forgets a change.
UnwrittenIsFlagged ==
    \A b \in Block : buf[b] # disk[b] => b \in dirty \cup dirty2

\* A checkpoint is taken only of the whole working state: emptying the journal
\* makes the disk the cached images of all blocks, never of some of them.
CheckpointIsWorkingState ==
    [][ckpt' # ckpt => \A b \in Block : ckpt'[b] = buf[b]]_vars

-----------------------------------------------------------------------------
\* What the code's comments say and the code does not do: no configuration lists
\* the next two, TLC finds them violated under RollbackJournal.cfg.

\* "reads the rollback journal and reverts anything" (sack.cc, above
\* vfs_os_process_rollback): a BAT comes back with the client allocations of the
\* checkpoint.  (Chains of the journal's own files may be newer.)
BatsRecoverable ==
    \A b \in Bats : \A i \in EntriesOf(b) : Image(i).v = ckpt[b].v

\* "failed to commit file changes to BAT blocks involved with the journal"
\* (fixed, says CHANGELOG.md): committed entries that overflow the header's
\* block lie in a block that the root BAT on the disk chains to the rollback file.
EntriesReachable == hdrDisk.nextEntry > HeaderEntries => disk[RootBat].e = 1

-----------------------------------------------------------------------------
\* What the recorded images would give back.
Recoverable(b) ==
    IF EntriesOf(b) = {} THEN disk[b] ELSE Image(CHOOSE i \in EntriesOf(b) : TRUE)

\* The journal implements the abstract volume for data blocks: whatever is
\* written, in whatever order, what a crash gives back changes only when a
\* checkpoint replaces it by the whole working state.
Volume == INSTANCE AtomicVolume WITH
    Blocks   <- Data,
    Contents <- Content,
    stored   <- [b \in Data |-> Recoverable(b)],
    working  <- [b \in Data |-> buf[b]]

ImplementsVolume == Volume!Spec
=============================================================================
