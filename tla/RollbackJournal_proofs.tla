------------------------ MODULE RollbackJournal_proofs ------------------------
(***************************************************************************)
(* Proofs about RollbackJournal: the types, the write-ahead rule for data  *)
(* blocks (DataRecoverable), what a load finds of the journal and gives    *)
(* back, and the refinement of AtomicVolume, for any sets of blocks, any   *)
(* size of the header block and any bounds.                                *)
(***************************************************************************)
EXTENDS RollbackJournal, SequenceTheorems, FiniteSetTheorems, TLAPS

\* The steps of a record after its entry was taken.
EntryTaken == {"seekCopy", "writeCopy", "writeEntry"}

\* The two steps in which the current entry's copy is not in the journal yet.
Uncopied(i) == pc \in {"seekCopy", "writeCopy"} /\ i + 1 = hdr.nextEntry

\* At most two records are in progress, the second for the root BAT.
PendingShape ==
    /\ pc \notin Recording => pending = <<>>
    /\ pc \in Recording =>
        /\ rec \in 1 .. Len(pending)
        /\ \/ Len(pending) = 1
           \/ Len(pending) = 2 /\ pending[2] = RootBat /\ elen = 1

\* The entries of the records in progress stay within Index.
Room ==
    /\ hdr.nextBlock <= hdr.nextEntry
    /\ hdr.nextEntry <= MaxEntry
    /\ pc = "seekEntry" => hdr.nextEntry + 2 - rec < MaxEntry
    /\ pc \in EntryTaken => hdr.nextEntry + 1 - rec < MaxEntry
    /\ pc \in {"seekCopy", "writeCopy"} => hdr.nextBlock < hdr.nextEntry

\* The cached entries: the journal block of each is behind nextBlock once it is
\* written, and those of data blocks stand for checkpoint images.
CachedEntries ==
    /\ pc \in EntryTaken => ent[hdr.nextEntry - 1].blk = Cur
    /\ \A i \in 0 .. hdr.nextEntry - 1 :
        /\ Uncopied(i) => ~ent[i].zero /\ ent[i].at = hdr.nextBlock
        /\ ~ent[i].zero /\ ~Uncopied(i) => ent[i].at < hdr.nextBlock
        /\ ent[i].blk \in Data /\ ent[i].zero => ckpt[ent[i].blk] = Zero
        /\ ent[i].blk \in Data /\ ~ent[i].zero /\ ~Uncopied(i) =>
            jrnlDisk[ent[i].at] = ckpt[ent[i].blk]

\* The disk holds the entries the header on it counts.
DiskEntries ==
    /\ hdrDisk.nextEntry <= hdr.nextEntry
    /\ pc \in EntryTaken => hdrDisk.nextEntry < hdr.nextEntry
    /\ pc \notin Recording \cup {"writeHeader"} => hdrDisk = hdr
    /\ \A i \in 0 .. hdr.nextEntry - 1 :
        /\ ~InHeader(i) /\ ~(pc \in EntryTaken /\ i + 1 = hdr.nextEntry) => entDisk[i] = ent[i]
        /\ InHeader(i) /\ i < hdrDisk.nextEntry => entDisk[i] = ent[i]

Covered(b) ==
    hdrDisk.dirty /\ \E i \in 0 .. hdrDisk.nextEntry - 1 : entDisk[i].blk = b

\* Block b's record is in progress, its entry taken unless it is the next step.
InProgress(b) ==
    /\ disk[b] = ckpt[b] /\ clean[b] = ckpt[b]
    /\ \/ pc \in Recording /\ b = pending[1]
       \/ pc = "writeHeader"
    /\ (pc = "seekEntry" /\ rec = 1) \/ \E i \in 0 .. hdr.nextEntry - 1 : ent[i].blk = b

\* A data block is as it was at the checkpoint until it is journaled, and stays
\* so on the disk until the header that counts its entry is on the disk.
BlockState ==
    /\ journaled # {} => hdr.dirty
    /\ pc = "flush" => dirty \cup dirty2 \subseteq flushing
    /\ pc \in Recording /\ pending[1] \in Data => InProgress(pending[1])
    /\ \A b \in Data :
        /\ b \notin dirty \cup dirty2 => buf[b] = disk[b] /\ clean[b] = disk[b]
        /\ b \notin journaled => b \notin dirty \cup dirty2 /\ disk[b] = ckpt[b]
        /\ b \in journaled => Covered(b) \/ InProgress(b)

IInv ==
    /\ TypeOK
    /\ PendingShape
    /\ Room
    /\ CachedEntries
    /\ DiskEntries
    /\ BlockState
-----------------------------------------------------------------------------
(* Types *)

USE DEF diskVars, cacheVars, jrnlVars

LEMMA RootBatIsBlock == RootBat \in Block
BY BlocksAssumption DEF Block

\* A fresh version, or a longer chain, leaves a block's content well typed.
LEMMA ContentUpdates ==
    ASSUME NEW f \in [Block -> Content], NEW b \in Block, NEW n \in Nat
    PROVE  /\ [f EXCEPT ![b].v = n] \in [Block -> Content]
           /\ [f EXCEPT ![b].e = n] \in [Block -> Content]
           /\ [f[b] EXCEPT !.j = @ + 1] \in Content
BY DEF Content

LEMMA CleanHeaderType == CleanHeader \in Header
BY DEF CleanHeader, Header

LEMMA InitTypeOK == Init => TypeOK
<1> SUFFICES ASSUME Init PROVE TypeOK
    OBVIOUS
<1>1. disk \in [Block -> Content]
    BY DEF Init, Content, Zero
<1>2. DiskTypeOK
    <2>1. jrnlDisk \in [Index -> Content]
        BY DEF Init, Content, Zero
    <2>2. entDisk \in [Index -> Entry]
        BY RootBatIsBlock DEF Init, Entry
    <2> QED BY <1>1, <2>1, <2>2, CleanHeaderType DEF Init, DiskTypeOK
<1>3. CacheTypeOK
    BY <1>1 DEF Init, CacheTypeOK
<1>4. JournalTypeOK
    <2>1. ent \in [Index -> Entry]
        BY RootBatIsBlock DEF Init, Entry
    <2>2. <<>> \in Seq(Block) /\ {} \subseteq Block
        OBVIOUS
    <2>3. hdr = CleanHeader /\ journaled = {} /\ pending = <<>> /\ rec = 1 /\ jlen = 1 /\ elen = 0
        BY DEF Init
    <2> QED BY <2>1, <2>2, <2>3, CleanHeaderType DEF JournalTypeOK
<1>5. ControlTypeOK
    BY DEF Init, ControlTypeOK, Recording
<1> QED
    BY <1>2, <1>3, <1>4, <1>5 DEF TypeOK

LEMMA ModifyType == ASSUME TypeOK, NEW b \in Block, Modify(b) PROVE TypeOK'
<1>1. DiskTypeOK'
    BY DEF TypeOK, DiskTypeOK, Modify
<1>2. CacheTypeOK'
    <2>1. version + 1 \in Nat
        BY DEF TypeOK, ControlTypeOK
    <2>2. buf \in [Block -> Content] /\ buf' = [buf EXCEPT ![b].v = version + 1]
        BY DEF TypeOK, CacheTypeOK, Modify
    <2>3. buf' \in [Block -> Content]
        BY <2>1, <2>2, ContentUpdates
    <2> QED BY <2>3 DEF TypeOK, CacheTypeOK, Modify
<1>3. CASE FirstRecord(b)
    <2>1. pending' = <<b>> /\ rec' = 1 /\ pc' = "seekEntry" /\ version' = version + 1
        BY <1>3 DEF Modify
    <2>2. hdr' \in Header
        BY <1>3 DEF TypeOK, JournalTypeOK, Modify, Header
    <2>3. JournalTypeOK'
        BY <1>3, <2>1, <2>2 DEF TypeOK, JournalTypeOK, Modify
    <2>4. Len(pending') = 1
        BY <2>1
    <2>5. ControlTypeOK'
        BY <2>1, <2>4 DEF TypeOK, ControlTypeOK, Recording
    <2> QED BY <1>1, <1>2, <2>3, <2>5 DEF TypeOK
<1>4. CASE ~FirstRecord(b)
    <2>1. JournalTypeOK'
        BY <1>4 DEF TypeOK, JournalTypeOK, Modify
    <2>2. ControlTypeOK'
        BY <1>4 DEF TypeOK, ControlTypeOK, Modify
    <2> QED BY <1>1, <1>2, <2>1, <2>2 DEF TypeOK
<1> QED BY <1>3, <1>4

\* While a record is in progress, Cur is a block.
LEMMA CurIsBlock == TypeOK /\ pc \in Recording => Cur \in Block
BY DEF TypeOK, JournalTypeOK, ControlTypeOK, Cur

LEMMA SeekEntryType == ASSUME TypeOK, SeekEntry PROVE TypeOK'
<1>1. pc \in Recording
    BY DEF SeekEntry, Recording
<1>2. DiskTypeOK'
    BY DEF TypeOK, DiskTypeOK, SeekEntry
<1>3. buf' \in [Block -> Content] /\ dirty' \subseteq Block
    <2>1. \/ buf' = buf /\ dirty' = dirty
          \/ buf' = [buf EXCEPT ![RootBat].e = 1] /\ dirty' = dirty \cup {RootBat}
        BY DEF SeekEntry
    <2>2. buf \in [Block -> Content] /\ dirty \subseteq Block
        BY DEF TypeOK, CacheTypeOK
    <2>3. [buf EXCEPT ![RootBat].e = 1] \in [Block -> Content]
        BY <2>2, ContentUpdates, RootBatIsBlock
    <2> QED BY <2>1, <2>2, <2>3, RootBatIsBlock
<1>4. CacheTypeOK'
    BY <1>3 DEF TypeOK, CacheTypeOK, SeekEntry
<1>5. pending' \in Seq(Block) /\ Len(pending') >= Len(pending)
    <2>1. pending' = pending \/ pending' = Append(pending, RootBat)
        BY DEF SeekEntry
    <2>2. pending \in Seq(Block)
        BY DEF TypeOK, JournalTypeOK
    <2> QED BY <2>1, <2>2, RootBatIsBlock
<1>6. hdr' \in Header
    BY DEF TypeOK, JournalTypeOK, SeekEntry, Header
<1>7. ent' \in [Index -> Entry]
    BY <1>1, CurIsBlock DEF TypeOK, JournalTypeOK, SeekEntry, Header, Entry
<1>8. JournalTypeOK'
    BY <1>5, <1>6, <1>7 DEF TypeOK, JournalTypeOK, SeekEntry
<1>9. ControlTypeOK'
    <2>1. rec' = rec /\ version' = version /\ pc' \in {"writeEntry", "seekCopy"}
        BY DEF SeekEntry
    <2>2. Len(pending) \in Nat /\ Len(pending') \in Nat
        BY <1>5 DEF TypeOK, JournalTypeOK
    <2> QED BY <1>1, <1>5, <2>1, <2>2 DEF TypeOK, ControlTypeOK, Recording
<1> QED BY <1>2, <1>4, <1>8, <1>9 DEF TypeOK

LEMMA SeekCopyType == ASSUME TypeOK, SeekCopy PROVE TypeOK'
<1> DEFINE bat == [buf[RootBat] EXCEPT !.j = @ + 1]
<1>1. bat \in Content
    BY ContentUpdates, RootBatIsBlock DEF TypeOK, CacheTypeOK
<1>2. DiskTypeOK'
    BY <1>1 DEF TypeOK, DiskTypeOK, SeekCopy
<1>3. CacheTypeOK'
    BY <1>1 DEF TypeOK, CacheTypeOK, SeekCopy
<1>4. JournalTypeOK'
    BY DEF TypeOK, JournalTypeOK, SeekCopy
<1>5. ControlTypeOK'
    BY DEF TypeOK, ControlTypeOK, SeekCopy, Recording
<1> QED BY <1>2, <1>3, <1>4, <1>5 DEF TypeOK

LEMMA WriteCopyType == ASSUME TypeOK, WriteCopy PROVE TypeOK'
<1>1. clean[Cur] \in Content
    BY CurIsBlock DEF TypeOK, CacheTypeOK, WriteCopy, Recording
<1>2. DiskTypeOK'
    BY <1>1 DEF TypeOK, DiskTypeOK, WriteCopy
<1>3. CacheTypeOK'
    BY DEF TypeOK, CacheTypeOK, WriteCopy
<1>4. JournalTypeOK'
    BY DEF TypeOK, JournalTypeOK, WriteCopy, Header
<1>5. ControlTypeOK'
    BY DEF TypeOK, ControlTypeOK, WriteCopy, Recording
<1> QED BY <1>2, <1>3, <1>4, <1>5 DEF TypeOK

LEMMA WriteEntryType == ASSUME TypeOK, WriteEntry PROVE TypeOK'
<1>1. DiskTypeOK'
    BY DEF TypeOK, DiskTypeOK, JournalTypeOK, WriteEntry
<1>2. CacheTypeOK'
    BY DEF TypeOK, CacheTypeOK, WriteEntry
<1>3. JournalTypeOK'
    <2>1. rec \in Nat /\ pending \in Seq(Block) /\ <<>> \in Seq(Block)
        BY DEF TypeOK, JournalTypeOK
    <2>2. (rec' = rec + 1 \/ rec' = 1) /\ (pending' = pending \/ pending' = <<>>)
        BY DEF WriteEntry
    <2>3. hdr' = hdr /\ ent' = ent /\ journaled' = journaled /\ jlen' = jlen /\ elen' = elen
        BY DEF WriteEntry
    <2>4. rec' \in Nat
        BY <2>1, <2>2
    <2>6. pending' \in Seq(Block)
        BY <2>1, <2>2
    <2>5. JournalTypeOK
        BY DEF TypeOK
    <2> QED BY <2>3, <2>4, <2>5, <2>6 DEF JournalTypeOK
<1>4. ControlTypeOK'
    <2>1. rec \in Nat /\ Len(pending) \in Nat
        BY DEF TypeOK, JournalTypeOK
    <2>2. \/ rec < Len(pending) /\ rec' = rec + 1 /\ pc' = "seekEntry" /\ pending' = pending
          \/ pc' = "writeHeader"
        BY DEF WriteEntry
    <2>3. version' = version /\ version \in Nat
        BY DEF WriteEntry, TypeOK, ControlTypeOK
    <2> QED BY <2>1, <2>2, <2>3 DEF ControlTypeOK, Recording
<1> QED BY <1>1, <1>2, <1>3, <1>4 DEF TypeOK

LEMMA WriteHeaderType == ASSUME TypeOK, WriteHeader PROVE TypeOK'
<1>1. DiskTypeOK'
    BY DEF TypeOK, DiskTypeOK, JournalTypeOK, WriteHeader
<1>2. CacheTypeOK' /\ JournalTypeOK'
    BY DEF TypeOK, CacheTypeOK, JournalTypeOK, WriteHeader
<1>3. ControlTypeOK'
    BY DEF TypeOK, ControlTypeOK, WriteHeader, Recording
<1> QED BY <1>1, <1>2, <1>3 DEF TypeOK

LEMMA EvictFlushType ==
    ASSUME TypeOK, NEW b \in Block, Evict(b) \/ FlushBlock(b) PROVE TypeOK'
<1>1. DiskTypeOK'
    BY DEF TypeOK, DiskTypeOK, CacheTypeOK, Evict, FlushBlock, WriteSlot
<1>2. CacheTypeOK'
    BY DEF TypeOK, CacheTypeOK, Evict, FlushBlock, WriteSlot
<1>3. JournalTypeOK' /\ ControlTypeOK'
    BY DEF TypeOK, JournalTypeOK, ControlTypeOK, Evict, FlushBlock
<1> QED BY <1>1, <1>2, <1>3 DEF TypeOK

LEMMA EmptyRollbackType == ASSUME TypeOK, EmptyRollback PROVE TypeOK'
<1>1. DiskTypeOK'
    BY CleanHeaderType DEF TypeOK, DiskTypeOK, JournalTypeOK, EmptyRollback
<1>2. CacheTypeOK'
    BY DEF TypeOK, CacheTypeOK, EmptyRollback
<1>3. JournalTypeOK'
    BY CleanHeaderType DEF TypeOK, JournalTypeOK, EmptyRollback
<1>4. ControlTypeOK'
    BY DEF TypeOK, ControlTypeOK, EmptyRollback, Recording
<1> QED BY <1>1, <1>2, <1>3, <1>4 DEF TypeOK

LEMMA LockStepType ==
    ASSUME TypeOK, LockVolume \/ UnlockVolume \/ FlusherAge \/ FlusherBegin \/ FlushVolumeBegin
    PROVE  TypeOK'
<1>1. DiskTypeOK' /\ JournalTypeOK'
    BY DEF TypeOK, DiskTypeOK, JournalTypeOK, LockVolume, UnlockVolume, FlusherAge, FlusherBegin,
           FlushVolumeBegin
<1>2. CacheTypeOK'
    BY DEF TypeOK, CacheTypeOK, LockVolume, UnlockVolume, FlusherAge, FlusherBegin, FlushVolumeBegin
<1>3. ControlTypeOK'
    BY DEF TypeOK, ControlTypeOK, Recording, LockVolume, UnlockVolume, FlusherAge, FlusherBegin,
           FlushVolumeBegin
<1> QED BY <1>1, <1>2, <1>3 DEF TypeOK

LEMMA NextTypeOK == TypeOK /\ [Next]_vars => TypeOK'
<1>1. ASSUME TypeOK, UNCHANGED vars PROVE TypeOK'
    BY <1>1 DEF vars, TypeOK, DiskTypeOK, CacheTypeOK, JournalTypeOK, ControlTypeOK
<1> QED
    BY <1>1, ModifyType, SeekEntryType, SeekCopyType, WriteCopyType, WriteEntryType,
       WriteHeaderType, EvictFlushType, EmptyRollbackType, LockStepType DEF Next, Record

\* The variables stay well typed, and a record in progress is always one of
\* the pending ones.
THEOREM Typing == Spec => []TypeOK
<1> QED BY InitTypeOK, NextTypeOK, PTL DEF Spec
-----------------------------------------------------------------------------
(* The inductive invariant *)

Journal == PendingShape /\ Room /\ CachedEntries /\ DiskEntries

\* Where nothing is being recorded.
Quiet == {"free", "op", "flush"}

LEMMA RootBatIsNotData == RootBat \notin Data
BY BlocksAssumption

LEMMA InitIInv == Init => IInv
<1> SUFFICES ASSUME Init PROVE IInv
    OBVIOUS
<1>1. /\ pc = "free" /\ pending = <<>> /\ hdr = CleanHeader /\ hdrDisk = CleanHeader
      /\ hdr.nextEntry = 0 /\ hdr.nextBlock = 0
    BY DEF Init, CleanHeader
<1>2. PendingShape
    BY <1>1 DEF PendingShape, Recording
<1>3. Room
    BY <1>1, BoundsAssumption DEF Room, EntryTaken
<1>4. CachedEntries
    BY <1>1 DEF CachedEntries, EntryTaken
<1>5. DiskEntries
    BY <1>1 DEF DiskEntries, EntryTaken
<1>6. BlockState
    BY <1>1 DEF Init, BlockState, Block, Recording
<1> QED BY <1>2, <1>3, <1>4, <1>5, <1>6, InitTypeOK DEF IInv

\* Steps outside a record that leave the journal alone keep its invariants.
LEMMA QuietJournal ==
    ASSUME IInv, pc \in Quiet, pc' \in Quiet,
           hdr' = hdr, hdrDisk' = hdrDisk, ent' = ent, entDisk' = entDisk,
           jrnlDisk' = jrnlDisk, pending' = pending, rec' = rec, elen' = elen, ckpt' = ckpt
    PROVE  Journal'
<1>1. PendingShape'
    BY DEF IInv, PendingShape, Quiet, Recording
<1>2. Room'
    BY DEF IInv, Room, Quiet, EntryTaken
<1>3. CachedEntries'
    BY DEF IInv, CachedEntries, Uncopied, Quiet, EntryTaken
<1>4. DiskEntries'
    BY DEF IInv, DiskEntries, Quiet, EntryTaken, Recording, InHeader
<1> QED BY <1>1, <1>2, <1>3, <1>4 DEF Journal

\* Outside a record every journaled data block is covered.
LEMMA QuietCovered ==
    ASSUME IInv, pc \in Quiet, NEW b \in Data, b \in journaled
    PROVE  Covered(b)
BY DEF IInv, BlockState, InProgress, Quiet, Recording

LEMMA LockStepIInv ==
    ASSUME IInv, LockVolume \/ UnlockVolume \/ FlusherAge \/ FlusherBegin \/ FlushVolumeBegin
    PROVE  IInv'
<1>1. pc \in Quiet /\ pc' \in Quiet
    BY DEF LockVolume, UnlockVolume, FlusherAge, FlusherBegin, FlushVolumeBegin, Quiet
<1>2. /\ UNCHANGED <<hdr, hdrDisk, ent, entDisk>> /\ UNCHANGED <<jrnlDisk, pending, rec, elen>>
      /\ UNCHANGED <<ckpt, journaled, disk, buf, clean>>
    BY DEF LockVolume, UnlockVolume, FlusherAge, FlusherBegin, FlushVolumeBegin
<1>3. TypeOK'
    BY LockStepType DEF IInv
<1>4. Journal'
    BY <1>1, <1>2, QuietJournal
<1>5. dirty' \cup dirty2' = dirty \cup dirty2
    BY DEF LockVolume, UnlockVolume, FlusherAge, FlusherBegin, FlushVolumeBegin
<1>6. BlockState'
    <2>1. (journaled # {} => hdr.dirty)'
        BY <1>2 DEF IInv, BlockState
    <2>2. (pc = "flush" => dirty \cup dirty2 \subseteq flushing)'
        <3>1. CASE FlusherBegin \/ FlushVolumeBegin
            BY <3>1, <1>5 DEF FlusherBegin, FlushVolumeBegin
        <3>2. CASE LockVolume \/ UnlockVolume \/ FlusherAge
            BY <3>2 DEF LockVolume, UnlockVolume, FlusherAge
        <3> QED BY <3>1, <3>2
    <2>3. pc' \notin Recording
        BY <1>1 DEF Quiet, Recording
    <2>4. ASSUME NEW b \in Data, b \in journaled' PROVE Covered(b)'
        BY <1>1, <1>2, <2>4, QuietCovered DEF Covered
    <2>5. ASSUME NEW b \in Data
          PROVE  /\ b \notin dirty' \cup dirty2' => buf'[b] = disk'[b] /\ clean'[b] = disk'[b]
                 /\ b \notin journaled' => b \notin dirty' \cup dirty2' /\ disk'[b] = ckpt'[b]
        BY <1>2, <1>5 DEF IInv, BlockState
    <2> QED BY <2>1, <2>2, <2>3, <2>4, <2>5 DEF BlockState
<1> QED BY <1>3, <1>4, <1>6 DEF IInv, Journal

\* What Modify does besides the journal: block b alone changes, in its slot.
LEMMA ModifyCache ==
    ASSUME IInv, NEW b \in Block, Modify(b)
    PROVE  /\ \A c \in Block : c # b => buf'[c] = buf[c]
           /\ dirty' = dirty \cup {b} /\ dirty2' = dirty2
           /\ disk' = disk /\ clean' = clean /\ ckpt' = ckpt
           /\ hdrDisk' = hdrDisk /\ entDisk' = entDisk
BY DEF IInv, TypeOK, CacheTypeOK, Modify

LEMMA ModifyAgainIInv ==
    ASSUME IInv, NEW b \in Block, Modify(b), ~FirstRecord(b)
    PROVE  IInv'
<1>1. TypeOK'
    BY ModifyType DEF IInv
<1>2. pc = "op" /\ pc' = "op"
    BY DEF Modify
<1>3. Journal'
    BY <1>2, QuietJournal DEF Modify, Quiet
<1>4. BlockState'
    <2>1. journaled' = journaled /\ hdr' = hdr
        BY DEF Modify
    <2>2. ASSUME NEW c \in Data, c \in journaled' PROVE Covered(c)'
        BY <1>2, <2>1, <2>2, ModifyCache, QuietCovered DEF Covered, Quiet
    <2>3. ASSUME NEW c \in Data
          PROVE  /\ c \notin dirty' \cup dirty2' => buf'[c] = disk'[c] /\ clean'[c] = disk'[c]
                 /\ c \notin journaled' => c \notin dirty' \cup dirty2' /\ disk'[c] = ckpt'[c]
        BY <2>1, ModifyCache DEF IInv, BlockState, FirstRecord, Block
    <2> QED BY <1>2, <2>1, <2>2, <2>3 DEF BlockState, IInv, Recording
<1> QED BY <1>1, <1>3, <1>4 DEF IInv, Journal

LEMMA ModifyFirstIInv ==
    ASSUME IInv, NEW b \in Block, Modify(b), FirstRecord(b)
    PROVE  IInv'
<1>1. TypeOK'
    BY ModifyType DEF IInv
<1>2. /\ pc = "op" /\ pc' = "seekEntry" /\ pending' = <<b>> /\ rec' = 1
      /\ hdr.nextEntry + 1 < MaxEntry /\ journaled' = journaled \cup {b}
      /\ hdr' = [hdr EXCEPT !.dirty = TRUE] /\ elen' = elen
      /\ ent' = ent /\ jrnlDisk' = jrnlDisk
    BY DEF Modify
<1>3. hdr'.nextEntry = hdr.nextEntry /\ hdr'.nextBlock = hdr.nextBlock /\ hdr'.dirty
    BY <1>2 DEF IInv, TypeOK, JournalTypeOK, Header
<1>4. PendingShape'
    BY <1>2 DEF PendingShape, Recording
<1>5. Room'
    <2>1. hdr.nextEntry \in Nat
        BY DEF IInv, TypeOK, JournalTypeOK, Header
    <2> QED BY <1>2, <1>3, <2>1 DEF IInv, Room, EntryTaken
<1>6. CachedEntries'
    BY <1>2, <1>3, ModifyCache DEF IInv, CachedEntries, Uncopied, EntryTaken
<1>7. DiskEntries'
    BY <1>2, <1>3, ModifyCache DEF IInv, DiskEntries, EntryTaken, Recording, InHeader
<1>8. BlockState'
    <2>1. ASSUME b \in Data PROVE InProgress(b)'
        <3>1. disk[b] = ckpt[b] /\ clean[b] = ckpt[b]
            BY <2>1 DEF IInv, BlockState, FirstRecord
        <3>2. pending'[1] = b
            BY <1>2
        <3> QED BY <1>2, <3>1, <3>2, ModifyCache DEF InProgress, Recording
    <2>2. ASSUME NEW c \in Data, c \in journaled' PROVE Covered(c)' \/ InProgress(c)'
        <3>1. CASE c = b
            BY <2>1, <3>1
        <3>2. CASE c # b
            BY <1>2, <2>2, <3>2, ModifyCache, QuietCovered DEF Covered, Quiet
        <3> QED BY <3>1, <3>2
    <2>3. ASSUME NEW c \in Data
          PROVE  /\ c \notin dirty' \cup dirty2' => buf'[c] = disk'[c] /\ clean'[c] = disk'[c]
                 /\ c \notin journaled' => c \notin dirty' \cup dirty2' /\ disk'[c] = ckpt'[c]
        BY <1>2, ModifyCache DEF IInv, BlockState, Block
    <2>4. pending'[1] = b
        BY <1>2
    <2> QED BY <1>2, <1>3, <2>1, <2>2, <2>3, <2>4 DEF BlockState
<1> QED BY <1>1, <1>4, <1>5, <1>6, <1>7, <1>8 DEF IInv

LEMMA EvictFlushIInv ==
    ASSUME IInv, NEW b \in Block, Evict(b) \/ FlushBlock(b)
    PROVE  IInv'
<1>1. TypeOK'
    BY EvictFlushType DEF IInv
<1>2. pc' = pc /\ (pc = "op" \/ pc = "flush")
    BY DEF Evict, FlushBlock
<1>3. /\ hdr' = hdr /\ hdrDisk' = hdrDisk /\ ent' = ent /\ entDisk' = entDisk
      /\ jrnlDisk' = jrnlDisk /\ pending' = pending /\ rec' = rec /\ elen' = elen
      /\ ckpt' = ckpt /\ journaled' = journaled /\ buf' = buf
    BY DEF Evict, FlushBlock
<1>4. Journal'
    BY <1>2, <1>3, QuietJournal DEF Quiet
<1>5. /\ disk'[b] = buf[b] /\ clean'[b] = buf[b]
      /\ \A c \in Block : c # b => disk'[c] = disk[c] /\ clean'[c] = clean[c]
      /\ dirty' = dirty \ {b} /\ dirty2' = dirty2 \ {b}
    BY DEF Evict, FlushBlock, WriteSlot, IInv, TypeOK, DiskTypeOK, CacheTypeOK
<1>6. BlockState'
    <2>1. ASSUME NEW c \in Data, c \in journaled' PROVE Covered(c)'
        BY <1>2, <1>3, <2>1, QuietCovered DEF Covered, Quiet
    <2>2. ASSUME NEW c \in Data
          PROVE  /\ c \notin dirty' \cup dirty2' => buf'[c] = disk'[c] /\ clean'[c] = disk'[c]
                 /\ c \notin journaled' => c \notin dirty' \cup dirty2' /\ disk'[c] = ckpt'[c]
        BY <1>3, <1>5 DEF IInv, BlockState, Block
    <2>3. (pc = "flush" => dirty \cup dirty2 \subseteq flushing)'
        <3>1. CASE Evict(b)
            BY <3>1 DEF Evict
        <3>2. CASE FlushBlock(b)
            BY <1>5, <3>2 DEF FlushBlock, IInv, BlockState
        <3> QED BY <3>1, <3>2
    <2> QED BY <1>2, <1>3, <2>1, <2>2, <2>3 DEF BlockState, IInv, Recording
<1> QED BY <1>1, <1>4, <1>6 DEF IInv, Journal

LEMMA EmptyRollbackIInv == ASSUME IInv, EmptyRollback PROVE IInv'
<1>1. TypeOK'
    BY EmptyRollbackType DEF IInv
<1>2. /\ pc = "flush" /\ pc' = "free" /\ dirty' = {} /\ dirty2' = {} /\ disk' = disk /\ buf' = buf
      /\ clean' = clean /\ pending' = pending /\ rec' = rec /\ ent' = ent /\ jrnlDisk' = jrnlDisk
      /\ elen' = elen /\ dirty = {} /\ dirty2 = {}
    BY DEF EmptyRollback, IInv, BlockState
<1>3. PendingShape'
    BY <1>2 DEF IInv, PendingShape, Recording
<1>4. CASE hdr.dirty
    <2>1. /\ hdr' = CleanHeader /\ hdrDisk' = CleanHeader /\ ckpt' = disk /\ journaled' = {}
          /\ hdr'.nextEntry = 0 /\ hdr'.nextBlock = 0 /\ hdrDisk'.nextEntry = 0
        BY <1>4 DEF EmptyRollback, CleanHeader
    <2>2. Room'
        BY <1>2, <2>1, BoundsAssumption DEF Room, EntryTaken
    <2>3. CachedEntries' /\ DiskEntries'
        BY <1>2, <2>1 DEF CachedEntries, DiskEntries, EntryTaken
    <2>4. BlockState'
        BY <1>2, <2>1 DEF BlockState, IInv, Recording
    <2> QED BY <1>1, <1>3, <2>2, <2>3, <2>4 DEF IInv
<1>5. CASE ~hdr.dirty
    <2>1. hdr' = hdr /\ hdrDisk' = hdrDisk /\ entDisk' = entDisk /\ ckpt' = ckpt /\ journaled' = journaled
        BY <1>5 DEF EmptyRollback
    <2>2. Journal'
        BY <1>2, <2>1, QuietJournal DEF Quiet
    <2>3. journaled = {}
        BY <1>5 DEF IInv, BlockState
    <2>4. BlockState'
        BY <1>2, <2>1, <2>3 DEF BlockState, IInv, Recording
    <2> QED BY <1>1, <2>2, <2>4 DEF IInv, Journal
<1> QED BY <1>4, <1>5

\* A data block that is being recorded is the one the operation changed, and
\* its clean image is still the checkpoint's.
LEMMA CurIsCheckpoint ==
    ASSUME IInv, pc \in Recording, Cur \in Data
    PROVE  rec = 1 /\ Cur = pending[1] /\ clean[Cur] = ckpt[Cur]
<1>1. rec \in 1 .. Len(pending) /\ rec \in Nat
    BY DEF IInv, PendingShape, TypeOK, JournalTypeOK
<1>2. rec = 1 \/ (rec = 2 /\ Len(pending) = 2)
    <2>1. CASE Len(pending) = 1
        BY <1>1, <2>1
    <2>2. CASE Len(pending) = 2
        BY <1>1, <2>2
    <2> QED BY <2>1, <2>2 DEF IInv, PendingShape
<1>3. rec = 1
    BY <1>2, RootBatIsNotData DEF IInv, PendingShape, Cur
<1> QED BY <1>3 DEF Cur, IInv, BlockState, InProgress

\* The entries the header on the disk counts are on the disk as they are in the
\* cache, with their copies.
LEMMA CountedEntries ==
    ASSUME IInv, NEW i \in 0 .. hdrDisk.nextEntry - 1
    PROVE  i \in 0 .. hdr.nextEntry - 1 /\ entDisk[i] = ent[i] /\ ~Uncopied(i)
<1>1. hdr.nextEntry \in Nat /\ hdrDisk.nextEntry \in Nat /\ hdrDisk.nextEntry <= hdr.nextEntry
    BY DEF IInv, TypeOK, JournalTypeOK, DiskTypeOK, Header, DiskEntries
<1>2. i \in 0 .. hdr.nextEntry - 1 /\ i < hdrDisk.nextEntry
    BY <1>1
<1>3. pc \in EntryTaken => i + 1 # hdr.nextEntry
    BY <1>1, <1>2 DEF IInv, DiskEntries
<1>4. entDisk[i] = ent[i]
    BY <1>2, <1>3 DEF IInv, DiskEntries
<1> QED BY <1>2, <1>3, <1>4 DEF Uncopied, EntryTaken

\* A record queued behind the first one is second.
LEMMA AppendToOne ==
    ASSUME NEW S, NEW s \in Seq(S), NEW x \in S
    PROVE  Len(s) = 1 => Len(Append(s, x)) = 2 /\ Append(s, x)[1] = s[1] /\ Append(s, x)[2] = x
<1>1. Len(Append(s, x)) = Len(s) + 1 /\ Append(s, x)[Len(s) + 1] = x
    BY AppendProperties, Zenon
<1>2. ASSUME Len(s) = 1 PROVE 1 \in 1 .. Len(s)
    BY <1>2
<1>3. ASSUME 1 \in 1 .. Len(s) PROVE Append(s, x)[1] = s[1]
    BY <1>3
<1>4. 1 + 1 = 2
    OBVIOUS
<1> QED BY <1>1, <1>2, <1>3, <1>4, Zenon

LEMMA SeekEntryIInv == ASSUME IInv, SeekEntry PROVE IInv'
<1> DEFINE i == hdr.nextEntry
           extend == i >= HeaderEntries /\ elen = 0
           zero == clean[Cur] = Zero
<1>1. TypeOK'
    BY SeekEntryType DEF IInv
<1>2. /\ pc = "seekEntry" /\ pc \in Recording
      /\ pc' = IF zero THEN "writeEntry" ELSE "seekCopy"
      /\ rec' = rec /\ ckpt' = ckpt /\ jrnlDisk' = jrnlDisk /\ entDisk' = entDisk
      /\ hdrDisk' = hdrDisk /\ journaled' = journaled /\ disk' = disk /\ clean' = clean
      /\ dirty2' = dirty2
    BY DEF SeekEntry, Recording
<1>3. i \in Nat /\ rec \in Nat /\ Len(pending) \in Nat /\ hdr.nextBlock \in Nat /\ i < MaxEntry
    <2>1. i \in Nat /\ rec \in Nat /\ Len(pending) \in Nat /\ hdr.nextBlock \in Nat
        BY DEF IInv, TypeOK, JournalTypeOK, Header
    <2>2. rec <= 2 /\ i + 2 - rec < MaxEntry
        <3>1. rec <= 2
            <4>1. rec \in 1 .. Len(pending) /\ (Len(pending) = 1 \/ Len(pending) = 2)
                BY <1>2 DEF IInv, PendingShape
            <4>2. CASE Len(pending) = 1
                BY <4>1, <4>2
            <4>3. CASE Len(pending) = 2
                BY <4>1, <4>3
            <4> QED BY <4>1, <4>2, <4>3
        <3>2. hdr.nextEntry + 2 - rec < MaxEntry
            BY <1>2 DEF IInv, Room
        <3> QED BY <3>1, <3>2
    <2> QED BY <2>1, <2>2, BoundsAssumption
<1>4. hdr'.nextEntry = i + 1 /\ hdr'.nextBlock = hdr.nextBlock /\ hdr'.dirty = hdr.dirty
    BY DEF SeekEntry, IInv, TypeOK, JournalTypeOK, Header
<1>5. /\ ent'[i] = [blk |-> Cur, zero |-> zero, at |-> hdr.nextBlock]
      /\ \A k \in 0 .. i - 1 : ent'[k] = ent[k]
    <2>1. i \in Index /\ ent \in [Index -> Entry]
        BY <1>3, BoundsAssumption DEF Index, IInv, TypeOK, JournalTypeOK
    <2>2. \A k \in 0 .. i - 1 : k \in Index /\ k # i
        BY <1>3, BoundsAssumption DEF Index
    <2>3. ent' = [ent EXCEPT ![i] = [blk |-> Cur, zero |-> zero, at |-> hdr.nextBlock]]
        BY DEF SeekEntry
    <2> HIDE DEF i, zero
    <2> QED BY <2>1, <2>2, <2>3
<1>6. /\ pending'[1] = pending[1] /\ Cur' = Cur
      /\ \/ pending' = pending /\ (elen' = elen \/ (elen' = 1 /\ elen = 0))
         \/ Len(pending) = 1 /\ Len(pending') = 2 /\ pending'[2] = RootBat /\ elen' = 1
    <2>1. pending \in Seq(Block) /\ rec \in 1 .. Len(pending)
        BY <1>2 DEF IInv, TypeOK, JournalTypeOK, ControlTypeOK
    <2>2. \/ pending' = pending /\ (elen' = elen \/ (elen' = 1 /\ elen = 0))
          \/ pending' = Append(pending, RootBat) /\ elen = 0 /\ elen' = 1
        <3>1. CASE extend
            BY <3>1 DEF SeekEntry
        <3>2. CASE ~extend
            BY <3>2 DEF SeekEntry
        <3> QED BY <3>1, <3>2
    <2>3. CASE pending' = pending
        BY <1>2, <2>2, <2>3 DEF Cur
    <2>4. CASE pending' = Append(pending, RootBat) /\ elen = 0 /\ elen' = 1
        <3>1. Len(pending) = 1
            <4>1. elen # 1
                BY <2>4
            <4> QED BY <1>2, <4>1 DEF IInv, PendingShape
        <3>2. rec = 1
            BY <2>1, <3>1
        <3>3. /\ Len(pending') = 2 /\ pending'[1] = pending[1] /\ pending'[2] = RootBat
            BY <2>1, <2>4, <3>1, RootBatIsBlock, AppendToOne
        <3> QED BY <1>2, <2>4, <3>1, <3>2, <3>3 DEF Cur
    <2> QED BY <2>2, <2>3, <2>4
<1>7. PendingShape'
    <2>1. pc' \in Recording /\ rec \in 1 .. Len(pending)
        BY <1>2 DEF Recording, IInv, PendingShape
    <2>2. CASE pending' = pending /\ (elen' = elen \/ (elen' = 1 /\ elen = 0))
        BY <1>2, <2>1, <2>2 DEF IInv, PendingShape
    <2>3. CASE Len(pending) = 1 /\ Len(pending') = 2 /\ pending'[2] = RootBat /\ elen' = 1
        BY <1>2, <2>1, <2>3 DEF PendingShape
    <2> QED BY <1>6, <2>2, <2>3
<1>8. Room'
    <2>1. /\ hdr.nextBlock <= i /\ i + 2 - rec < MaxEntry
        BY <1>2 DEF IInv, Room
    <2>2. /\ hdr.nextBlock <= i + 1 /\ i + 1 <= MaxEntry /\ hdr.nextBlock < i + 1
          /\ (i + 1) + 1 - rec < MaxEntry
        BY <1>3, <2>1, BoundsAssumption
    <2>3. pc' # "seekEntry"
        BY <1>2
    <2> QED BY <1>2, <1>4, <2>2, <2>3 DEF Room
<1>9. CachedEntries'
    <2>1. (pc \in EntryTaken => ent[hdr.nextEntry - 1].blk = Cur)'
        BY <1>3, <1>4, <1>5, <1>6
    <2>2. ASSUME NEW k \in 0 .. i - 1
          PROVE  /\ ~Uncopied(k) /\ ~Uncopied(k)' /\ ent'[k] = ent[k]
        BY <1>2, <1>3, <1>4, <1>5 DEF Uncopied
    <2>3. \A k : k = i => (Uncopied(k)' <=> ~zero)
        BY <1>2, <1>4 DEF Uncopied
    <2>4. Cur \in Data /\ zero => ckpt[Cur] = Zero
        BY <1>2, CurIsCheckpoint
    <2>5. ASSUME NEW k \in 0 .. hdr'.nextEntry - 1
          PROVE  /\ Uncopied(k)' => ~ent'[k].zero /\ ent'[k].at = hdr'.nextBlock
                 /\ ~ent'[k].zero /\ ~Uncopied(k)' => ent'[k].at < hdr'.nextBlock
                 /\ ent'[k].blk \in Data /\ ent'[k].zero => ckpt'[ent'[k].blk] = Zero
                 /\ ent'[k].blk \in Data /\ ~ent'[k].zero /\ ~Uncopied(k)' =>
                     jrnlDisk'[ent'[k].at] = ckpt'[ent'[k].blk]
        <3>1. CASE k = i
            <4>1. Uncopied(k)' <=> ~zero
                BY <2>3, <3>1
            <4>2. ent'[k].blk = Cur /\ ent'[k].zero = zero /\ ent'[k].at = hdr.nextBlock
                BY <1>5, <3>1
            <4> HIDE DEF zero
            <4> QED BY <1>2, <1>4, <2>4, <4>1, <4>2
        <3>2. CASE k \in 0 .. i - 1
            BY <1>2, <1>4, <2>2, <3>2 DEF IInv, CachedEntries
        <3> QED BY <1>3, <1>4, <3>1, <3>2
    <2> QED BY <2>1, <2>5 DEF CachedEntries
<1>10. DiskEntries'
    <2>1. hdrDisk.nextEntry \in Nat /\ hdrDisk.nextEntry <= i
        BY DEF IInv, TypeOK, DiskTypeOK, Header, DiskEntries
    <2>2. pc' \in EntryTaken /\ pc' \in Recording
        BY <1>2 DEF EntryTaken, Recording
    <2>3. ASSUME NEW k \in 0 .. i - 1 PROVE
                 /\ ~InHeader(k) => entDisk'[k] = ent'[k]
                 /\ InHeader(k) /\ k < hdrDisk.nextEntry => entDisk'[k] = ent'[k]
        BY <1>2, <1>5 DEF IInv, DiskEntries, EntryTaken
    <2>4. \A k \in 0 .. hdr'.nextEntry - 1 : k = i \/ k \in 0 .. i - 1
        BY <1>3, <1>4
    <2>5. ASSUME NEW k \in 0 .. hdr'.nextEntry - 1
          PROVE  /\ ~InHeader(k) /\ ~(pc' \in EntryTaken /\ k + 1 = hdr'.nextEntry) => entDisk'[k] = ent'[k]
                 /\ InHeader(k) /\ k < hdrDisk'.nextEntry => entDisk'[k] = ent'[k]
        <3>1. CASE k = i
            BY <1>2, <1>3, <1>4, <2>1, <2>2, <3>1
        <3>2. CASE k \in 0 .. i - 1
            BY <1>2, <2>3, <3>2
        <3> QED BY <2>4, <3>1, <3>2
    <2> QED BY <1>2, <1>3, <1>4, <2>1, <2>2, <2>5 DEF DiskEntries, InHeader
<1>11. BlockState'
    <2>1. pc' \in Recording /\ pc' # "flush" /\ pc' # "seekEntry"
        BY <1>2 DEF Recording
    <2>2. ASSUME NEW b \in Data, InProgress(b) PROVE InProgress(b)'
        <3>1. b = pending[1]
            BY <1>2, <2>2 DEF InProgress
        <3>2. CASE rec = 1
            BY <1>2, <1>3, <1>4, <1>5, <1>6, <2>1, <2>2, <3>1, <3>2 DEF InProgress, Cur
        <3>3. CASE rec # 1
            <4>1. PICK k \in 0 .. i - 1 : ent[k].blk = b
                BY <2>2, <3>3 DEF InProgress
            <4>2. k \in 0 .. hdr'.nextEntry - 1 /\ ent'[k].blk = b
                BY <1>3, <1>4, <1>5, <4>1
            <4> QED BY <1>2, <1>6, <2>1, <2>2, <3>1, <4>2 DEF InProgress
        <3> QED BY <3>2, <3>3
    <2>3. ASSUME NEW c \in Data PROVE buf'[c] = buf[c] /\ (c \in dirty' <=> c \in dirty)
        <3>1. c # RootBat /\ c \in Block
            BY RootBatIsNotData DEF Block
        <3> QED BY <3>1 DEF SeekEntry, IInv, TypeOK, CacheTypeOK
    <2>4. ASSUME NEW c \in Data, c \in journaled' PROVE Covered(c)' \/ InProgress(c)'
        BY <1>2, <2>2, <2>4 DEF IInv, BlockState, Covered
    <2>5. ASSUME pending'[1] \in Data PROVE InProgress(pending[1])'
        BY <1>2, <1>6, <2>2, <2>5 DEF IInv, BlockState
    <2>6. ASSUME NEW c \in Data
          PROVE  /\ c \notin dirty' \cup dirty2' => buf'[c] = disk'[c] /\ clean'[c] = disk'[c]
                 /\ c \notin journaled' => c \notin dirty' \cup dirty2' /\ disk'[c] = ckpt'[c]
        BY <1>2, <2>3 DEF IInv, BlockState
    <2>7. (journaled # {} => hdr.dirty)'
        BY <1>2, <1>4 DEF IInv, BlockState
    <2> QED BY <2>1, <2>4, <2>5, <2>6, <2>7 DEF BlockState
<1> QED BY <1>1, <1>7, <1>8, <1>9, <1>10, <1>11 DEF IInv

\* Chaining a block to the journal file touches nothing a data block's record
\* or image depends on.
LEMMA SeekCopyIInv == ASSUME IInv, SeekCopy PROVE IInv'
<1>1. TypeOK'
    BY SeekCopyType DEF IInv
<1>2. /\ pc = "seekCopy" /\ pc' = "writeCopy" /\ hdr' = hdr /\ ent' = ent
      /\ journaled' = journaled /\ pending' = pending /\ rec' = rec /\ elen' = elen
      /\ hdrDisk' = hdrDisk /\ entDisk' = entDisk /\ jrnlDisk' = jrnlDisk /\ ckpt' = ckpt
    BY DEF SeekCopy
<1>3. ASSUME NEW c \in Data
      PROVE  /\ buf'[c] = buf[c] /\ disk'[c] = disk[c] /\ clean'[c] = clean[c]
             /\ (c \in dirty' <=> c \in dirty) /\ (c \in dirty2' <=> c \in dirty2)
    <2>1. c # RootBat /\ c \in Block
        BY RootBatIsNotData DEF Block
    <2> QED BY <2>1 DEF SeekCopy, IInv, TypeOK, DiskTypeOK, CacheTypeOK
<1>4. PendingShape' /\ Room'
    BY <1>2 DEF IInv, PendingShape, Room, Recording, EntryTaken
<1>5. CachedEntries'
    BY <1>2 DEF IInv, CachedEntries, EntryTaken, Uncopied, Cur
<1>6. DiskEntries'
    BY <1>2 DEF IInv, DiskEntries, EntryTaken, Recording, InHeader
<1>7. BlockState'
    <2>1. ASSUME NEW b \in Data, InProgress(b) PROVE InProgress(b)'
        BY <1>2, <1>3, <2>1 DEF InProgress, Recording
    <2>2. ASSUME NEW c \in Data, c \in journaled' PROVE Covered(c)' \/ InProgress(c)'
        BY <1>2, <2>1, <2>2 DEF IInv, BlockState, Covered
    <2>3. ASSUME pending'[1] \in Data PROVE InProgress(pending[1])'
        BY <1>2, <2>1, <2>3 DEF IInv, BlockState, Recording
    <2>4. ASSUME NEW c \in Data
          PROVE  /\ c \notin dirty' \cup dirty2' => buf'[c] = disk'[c] /\ clean'[c] = disk'[c]
                 /\ c \notin journaled' => c \notin dirty' \cup dirty2' /\ disk'[c] = ckpt'[c]
        BY <1>2, <1>3 DEF IInv, BlockState
    <2> QED BY <1>2, <2>2, <2>3, <2>4 DEF IInv, BlockState
<1> QED BY <1>1, <1>4, <1>5, <1>6, <1>7 DEF IInv

LEMMA WriteCopyIInv == ASSUME IInv, WriteCopy PROVE IInv'
<1> DEFINE n == hdr.nextBlock
<1>1. TypeOK'
    BY WriteCopyType DEF IInv
<1>2. /\ pc = "writeCopy" /\ pc \in Recording /\ pc' = "writeEntry"
      /\ ent' = ent /\ journaled' = journaled /\ pending' = pending /\ rec' = rec
      /\ elen' = elen /\ hdrDisk' = hdrDisk /\ entDisk' = entDisk /\ ckpt' = ckpt
      /\ disk' = disk /\ buf' = buf /\ clean' = clean /\ dirty' = dirty /\ dirty2' = dirty2
    BY DEF WriteCopy, Recording
<1>3. /\ hdr.nextEntry \in Nat /\ n \in Nat /\ n < hdr.nextEntry /\ hdr.nextEntry <= MaxEntry
      /\ hdr'.nextEntry = hdr.nextEntry /\ hdr'.nextBlock = n + 1 /\ hdr'.dirty = hdr.dirty
    BY <1>2 DEF WriteCopy, IInv, TypeOK, JournalTypeOK, Header, Room
<1>4. n \in Index
    BY <1>3, BoundsAssumption DEF Index
<1>5. jrnlDisk'[n] = clean[Cur] /\ \A k \in Index : k # n => jrnlDisk'[k] = jrnlDisk[k]
    BY <1>4 DEF WriteCopy, IInv, TypeOK, DiskTypeOK
<1>6. PendingShape' /\ Room'
    <2>1. PendingShape'
        BY <1>2 DEF IInv, PendingShape, Recording
    <2>2. hdr.nextEntry + 1 - rec < MaxEntry
        BY <1>2 DEF IInv, Room, EntryTaken
    <2>3. n + 1 <= hdr.nextEntry
        BY <1>3
    <2> QED BY <1>2, <1>3, <2>1, <2>2, <2>3 DEF Room, EntryTaken
<1>7. CachedEntries'
    <2>1. (pc \in EntryTaken => ent[hdr.nextEntry - 1].blk = Cur)'
        BY <1>2, <1>3 DEF IInv, CachedEntries, EntryTaken, Cur
    <2>2. ASSUME NEW k \in 0 .. hdr.nextEntry - 1
          PROVE  /\ ~ent[k].zero => ent[k].at < n + 1
                 /\ ent[k].blk \in Data /\ ent[k].zero => ckpt[ent[k].blk] = Zero
                 /\ ent[k].blk \in Data /\ ~ent[k].zero => jrnlDisk'[ent[k].at] = ckpt[ent[k].blk]
        <3>1. k \in Index
            BY <1>3, BoundsAssumption DEF Index
        <3>2. ent[k].at \in Nat
            BY <3>1 DEF IInv, TypeOK, JournalTypeOK, Entry
        <3>3. ent[k].blk \in Data /\ ent[k].zero => ckpt[ent[k].blk] = Zero
            BY DEF IInv, CachedEntries
        <3>4. CASE Uncopied(k)
            <4>1. ent[k].at = n /\ ent[k].blk = Cur
                <5>1. k = hdr.nextEntry - 1
                    BY <1>3, <3>4 DEF Uncopied
                <5> QED BY <1>2, <3>4, <5>1 DEF IInv, CachedEntries, EntryTaken
            <4> QED BY <1>2, <1>3, <1>5, <3>3, <4>1, CurIsCheckpoint
        <3>5. CASE ~Uncopied(k) /\ ~ent[k].zero
            <4>1. ent[k].at < n
                BY <3>5 DEF IInv, CachedEntries
            <4>2. ent[k].at \in Index /\ ent[k].at # n /\ ent[k].at < n + 1
                BY <1>3, <3>2, <4>1, BoundsAssumption DEF Index
            <4> QED BY <1>5, <3>5, <4>2 DEF IInv, CachedEntries
        <3> QED BY <3>3, <3>4, <3>5
    <2>3. \A k : ~Uncopied(k)'
        BY <1>2 DEF Uncopied
    <2> QED BY <1>2, <1>3, <2>1, <2>2, <2>3 DEF CachedEntries
<1>8. DiskEntries'
    BY <1>2, <1>3 DEF IInv, DiskEntries, EntryTaken, Recording, InHeader
<1>9. BlockState'
    <2>1. ASSUME NEW b \in Data, InProgress(b) PROVE InProgress(b)'
        BY <1>2, <1>3, <2>1 DEF InProgress, Recording
    <2>2. ASSUME NEW c \in Data, c \in journaled' PROVE Covered(c)' \/ InProgress(c)'
        BY <1>2, <2>1, <2>2 DEF IInv, BlockState, Covered
    <2>3. ASSUME pending'[1] \in Data PROVE InProgress(pending[1])'
        BY <1>2, <2>1, <2>3 DEF IInv, BlockState
    <2> QED BY <1>2, <1>3, <2>2, <2>3 DEF IInv, BlockState
<1> QED BY <1>1, <1>6, <1>7, <1>8, <1>9 DEF IInv

LEMMA WriteEntryIInv == ASSUME IInv, WriteEntry PROVE IInv'
<1>1. TypeOK'
    BY WriteEntryType DEF IInv
<1>2. /\ pc = "writeEntry" /\ pc \in Recording /\ pc \in EntryTaken
      /\ ent' = ent /\ journaled' = journaled /\ elen' = elen /\ hdr' = hdr
      /\ hdrDisk' = hdrDisk /\ jrnlDisk' = jrnlDisk /\ ckpt' = ckpt
      /\ disk' = disk /\ buf' = buf /\ clean' = clean /\ dirty' = dirty /\ dirty2' = dirty2
    BY DEF WriteEntry, Recording, EntryTaken
<1>3. /\ hdr.nextEntry \in Nat /\ hdr.nextEntry <= MaxEntry /\ HeaderEntries \in Nat
      /\ rec \in Nat /\ Len(pending) \in Nat /\ rec \in 1 .. Len(pending)
      /\ hdrDisk.nextEntry \in Nat /\ hdrDisk.nextEntry < hdr.nextEntry
    <2>1. hdr.nextEntry \in Nat /\ hdrDisk.nextEntry \in Nat /\ rec \in Nat /\ Len(pending) \in Nat
        BY DEF IInv, TypeOK, JournalTypeOK, DiskTypeOK, Header
    <2> QED BY <1>2, <2>1, BoundsAssumption DEF IInv, Room, DiskEntries, PendingShape
<1>4. \/ rec < Len(pending) /\ rec' = rec + 1 /\ pc' = "seekEntry" /\ pending' = pending
      \/ pc' = "writeHeader" /\ pending' = <<>>
    BY DEF WriteEntry
<1>5. PendingShape'
    <2>1. CASE rec < Len(pending) /\ rec' = rec + 1 /\ pc' = "seekEntry" /\ pending' = pending
        <3>1. rec' \in 1 .. Len(pending)
            BY <1>3, <2>1
        <3> QED BY <1>2, <2>1, <3>1 DEF IInv, PendingShape, Recording
    <2>2. CASE pc' = "writeHeader" /\ pending' = <<>>
        BY <2>2 DEF PendingShape, Recording
    <2> QED BY <1>4, <2>1, <2>2
<1>6. Room'
    <2>1. hdr.nextEntry + 1 - rec < MaxEntry /\ hdr.nextBlock <= hdr.nextEntry
        BY <1>2 DEF IInv, Room
    <2>2. pc' = "seekEntry" => hdr.nextEntry + 2 - rec' < MaxEntry
        BY <1>3, <1>4, <2>1, BoundsAssumption
    <2>3. pc' \notin EntryTaken /\ pc' # "seekCopy" /\ pc' # "writeCopy"
        BY <1>4 DEF EntryTaken
    <2> QED BY <1>2, <1>3, <2>1, <2>2, <2>3 DEF Room
<1>7. CachedEntries'
    <2>1. pc' \notin EntryTaken /\ \A k : ~Uncopied(k) /\ ~Uncopied(k)'
        BY <1>2, <1>4 DEF EntryTaken, Uncopied
    <2> QED BY <1>2, <2>1 DEF IInv, CachedEntries
<1>8. /\ \A k \in 0 .. hdr.nextEntry - 1 : InHeader(k) => entDisk'[k] = entDisk[k]
      /\ \A k \in 0 .. hdr.nextEntry - 1 : ~InHeader(k) => entDisk'[k] = ent[k]
    <2>1. \A k \in 0 .. hdr.nextEntry - 1 : k \in Index
        BY <1>3, BoundsAssumption DEF Index
    <2>2. CASE InHeader(hdr.nextEntry - 1)
        <3>1. entDisk' = entDisk
            BY <2>2 DEF WriteEntry
        <3>2. \A k \in 0 .. hdr.nextEntry - 1 : InHeader(k)
            BY <1>3, <2>2 DEF InHeader
        <3> QED BY <3>1, <3>2
    <2>3. CASE ~InHeader(hdr.nextEntry - 1)
        BY <2>1, <2>3 DEF WriteEntry
    <2> QED BY <2>2, <2>3
<1>9. DiskEntries'
    <2>1. pc' \notin EntryTaken /\ pc' \in Recording \cup {"writeHeader"}
        BY <1>4 DEF EntryTaken, Recording
    <2>2. ASSUME NEW k \in 0 .. hdr.nextEntry - 1, InHeader(k), k < hdrDisk.nextEntry
          PROVE  entDisk[k] = ent[k]
        BY <2>2 DEF IInv, DiskEntries
    <2> QED BY <1>2, <1>3, <1>8, <2>1, <2>2 DEF DiskEntries, InHeader
<1>10. BlockState'
    <2>1. ASSUME NEW b \in Data, Covered(b) PROVE Covered(b)'
        <3>1. PICK k \in 0 .. hdrDisk.nextEntry - 1 : entDisk[k].blk = b
            BY <2>1 DEF Covered
        <3>2. k \in 0 .. hdr.nextEntry - 1 /\ entDisk[k] = ent[k]
            BY CountedEntries
        <3>3. entDisk'[k] = entDisk[k]
            BY <1>8, <3>2
        <3> QED BY <1>2, <2>1, <3>1, <3>3 DEF Covered
    <2>2. ASSUME NEW b \in Data, InProgress(b) PROVE InProgress(b)'
        <3>1. b = pending[1] /\ \E k \in 0 .. hdr.nextEntry - 1 : ent[k].blk = b
            BY <1>2, <2>2 DEF InProgress
        <3> QED BY <1>2, <1>4, <2>2, <3>1 DEF InProgress, Recording
    <2>3. ASSUME NEW c \in Data, c \in journaled' PROVE Covered(c)' \/ InProgress(c)'
        BY <1>2, <2>1, <2>2, <2>3 DEF IInv, BlockState
    <2>4. ASSUME pc' \in Recording, pending'[1] \in Data PROVE InProgress(pending[1])'
        <3>1. pending' = pending
            BY <1>4, <2>4 DEF Recording
        <3> QED BY <1>2, <2>2, <2>4, <3>1 DEF IInv, BlockState
    <2>5. pc' # "flush"
        BY <1>4
    <2> QED BY <1>2, <2>3, <2>4, <2>5 DEF IInv, BlockState
<1> QED BY <1>1, <1>5, <1>6, <1>7, <1>9, <1>10 DEF IInv

\* The write of the header is what makes the records in progress count.
LEMMA WriteHeaderIInv == ASSUME IInv, WriteHeader PROVE IInv'
<1>1. TypeOK'
    BY WriteHeaderType DEF IInv
<1>2. /\ pc = "writeHeader" /\ pc \notin Recording /\ pc \notin EntryTaken /\ pc' = "op"
      /\ hdrDisk' = hdr /\ hdr' = hdr /\ ent' = ent /\ jrnlDisk' = jrnlDisk /\ ckpt' = ckpt
      /\ journaled' = journaled /\ pending' = pending /\ rec' = rec /\ elen' = elen
      /\ disk' = disk /\ buf' = buf /\ clean' = clean /\ dirty' = dirty /\ dirty2' = dirty2
    BY DEF WriteHeader, Recording, EntryTaken
<1>3. hdr.nextEntry \in Nat /\ hdr.nextEntry <= MaxEntry
    BY DEF IInv, TypeOK, JournalTypeOK, Header, Room
<1>4. \A k \in 0 .. hdr.nextEntry - 1 : entDisk'[k] = ent[k]
    <2>1. ASSUME NEW k \in 0 .. hdr.nextEntry - 1 PROVE entDisk'[k] = IF InHeader(k) THEN ent[k] ELSE entDisk[k]
        <3>1. k \in Index
            BY <1>3, BoundsAssumption DEF Index
        <3> QED BY <3>1 DEF WriteHeader
    <2> QED BY <1>2, <2>1 DEF IInv, DiskEntries
<1>5. PendingShape' /\ Room' /\ CachedEntries'
    <2>1. PendingShape'
        BY <1>2 DEF IInv, PendingShape, Recording
    <2>2. Room'
        BY <1>2 DEF IInv, Room, EntryTaken
    <2>3. CachedEntries'
        BY <1>2 DEF IInv, CachedEntries, EntryTaken, Uncopied
    <2> QED BY <2>1, <2>2, <2>3
<1>6. DiskEntries'
    BY <1>2, <1>3, <1>4 DEF DiskEntries, EntryTaken, Recording
<1>7. BlockState'
    <2>1. ASSUME NEW c \in Data, c \in journaled PROVE Covered(c)'
        <3>1. hdr.dirty
            BY <2>1 DEF IInv, BlockState
        <3>2. PICK k \in 0 .. hdr.nextEntry - 1 : ent[k].blk = c
            <4>1. CASE Covered(c)
                <5>1. PICK k \in 0 .. hdrDisk.nextEntry - 1 : entDisk[k].blk = c
                    BY <4>1 DEF Covered
                <5>2. k \in 0 .. hdr.nextEntry - 1 /\ entDisk[k] = ent[k]
                    BY CountedEntries
                <5> QED BY <5>1, <5>2
            <4>2. CASE InProgress(c)
                BY <1>2, <4>2 DEF InProgress
            <4> QED BY <2>1, <4>1, <4>2 DEF IInv, BlockState
        <3>3. entDisk'[k].blk = c
            BY <1>4, <3>2
        <3> QED BY <1>2, <3>1, <3>2, <3>3 DEF Covered
    <2>2. pc' \notin Recording /\ pc' # "flush"
        BY <1>2 DEF Recording
    <2> QED BY <1>2, <2>1, <2>2 DEF IInv, BlockState
<1> QED BY <1>1, <1>5, <1>6, <1>7 DEF IInv

LEMMA NextIInv == IInv /\ [Next]_vars => IInv'
<1>1. ASSUME IInv, UNCHANGED vars PROVE IInv'
    <2>1. TypeOK'
        BY <1>1, NextTypeOK DEF IInv
    <2>2. PendingShape' /\ Room'
        BY <1>1 DEF vars, IInv, PendingShape, Room
    <2>3. CachedEntries' /\ DiskEntries'
        BY <1>1 DEF vars, IInv, CachedEntries, DiskEntries, Uncopied, Cur, InHeader
    <2>4. BlockState'
        BY <1>1 DEF vars, IInv, BlockState, Covered, InProgress
    <2> QED BY <2>1, <2>2, <2>3, <2>4 DEF IInv
<1> QED
    BY <1>1, ModifyFirstIInv, ModifyAgainIInv, SeekEntryIInv, SeekCopyIInv, WriteCopyIInv,
       WriteEntryIInv, WriteHeaderIInv, EvictFlushIInv, EmptyRollbackIInv, LockStepIInv
    DEF Next, Record

LEMMA Inductive == Spec => []IInv
<1> QED BY InitIInv, NextIInv, PTL DEF Spec

LEMMA IInvDataRecoverable == IInv => DataRecoverable
<1> SUFFICES ASSUME IInv, NEW b \in Data
             PROVE  /\ disk[b] # ckpt[b] => EntriesOf(b) # {}
                    /\ \A i \in EntriesOf(b) : Image(i) = ckpt[b]
    BY DEF DataRecoverable
<1>1. ASSUME disk[b] # ckpt[b] PROVE EntriesOf(b) # {}
    <2>1. Covered(b)
        BY <1>1 DEF IInv, BlockState, InProgress
    <2> QED BY <2>1 DEF Covered, EntriesOf, Committed
<1>2. ASSUME NEW i \in EntriesOf(b) PROVE Image(i) = ckpt[b]
    <2>1. i \in 0 .. hdrDisk.nextEntry - 1 /\ entDisk[i].blk = b
        BY DEF EntriesOf, Committed
    <2>2. i \in 0 .. hdr.nextEntry - 1 /\ entDisk[i] = ent[i] /\ ~Uncopied(i)
        BY <2>1, CountedEntries
    <2> QED BY <2>1, <2>2 DEF IInv, CachedEntries, Image
<1> QED BY <1>1, <1>2

\* The write-ahead rule: wherever the program stops, the committed entries give
\* back the checkpoint image of every data block that changed on the disk
\* (vfs_os_record_rollback and everything that writes a block).
THEOREM WriteAhead == Spec => []DataRecoverable
<1> QED BY Inductive, IInvDataRecoverable, PTL
-----------------------------------------------------------------------------
(* The flags of the cache, and checkpoints *)

Idle(b) == buf'[b] = buf[b] /\ disk'[b] = disk[b] /\ (b \in dirty \cup dirty2 => b \in dirty' \cup dirty2')

\* A step leaves a block and its flags alone, flags it, or writes it.
LEMMA BlockStep ==
    ASSUME TypeOK, [Next]_vars, NEW b \in Block
    PROVE  \/ Idle(b)
           \/ b \in dirty'
           \/ disk'[b] = buf'[b]
<1>1. CASE UNCHANGED vars
    BY <1>1 DEF vars, Idle
<1>2. ASSUME NEW c \in Block, Modify(c) PROVE Idle(b) \/ b \in dirty'
    BY <1>2 DEF Modify, Idle, TypeOK, CacheTypeOK
<1>3. ASSUME NEW c \in Block, Evict(c) \/ FlushBlock(c) PROVE Idle(b) \/ disk'[b] = buf'[b]
    BY <1>3 DEF Evict, FlushBlock, WriteSlot, Idle, TypeOK, DiskTypeOK
<1>4. CASE SeekEntry
    BY <1>4 DEF SeekEntry, Idle, TypeOK, CacheTypeOK
<1>5. CASE SeekCopy
    BY <1>5 DEF SeekCopy, Idle, TypeOK, DiskTypeOK, CacheTypeOK
<1>6. CASE WriteCopy \/ WriteEntry \/ WriteHeader \/ EmptyRollback
    BY <1>6 DEF WriteCopy, WriteEntry, WriteHeader, EmptyRollback, Idle
<1>7. CASE LockVolume \/ UnlockVolume \/ FlusherAge \/ FlusherBegin \/ FlushVolumeBegin
    BY <1>7 DEF LockVolume, UnlockVolume, FlusherAge, FlusherBegin, FlushVolumeBegin, Idle
<1> QED
    BY <1>1, <1>2, <1>3, <1>4, <1>5, <1>6, <1>7 DEF Next, Record

\* No change of a cached block is ever forgotten: until it is on the disk one of
\* the slot's two flags is set (SMUDGECACHE, volume_flusher's ageing of dirty
\* into _dirty, sack_vfs_os_flush_block).
THEOREM NothingForgotten == Spec => []UnwrittenIsFlagged
<1>1. Init => UnwrittenIsFlagged
    BY DEF Init, UnwrittenIsFlagged
<1>2. TypeOK /\ UnwrittenIsFlagged /\ [Next]_vars => UnwrittenIsFlagged'
    BY BlockStep DEF UnwrittenIsFlagged, Idle
<1> QED BY <1>1, <1>2, Typing, PTL DEF Spec

\* Only vfs_os_empty_rollback makes a checkpoint, of a disk that by then equals
\* the cache.
LEMMA CheckpointStep ==
    ASSUME IInv, UnwrittenIsFlagged, [Next]_vars
    PROVE  \/ ckpt' = ckpt
           \/ EmptyRollback /\ ckpt' = disk /\ \A b \in Block : disk[b] = buf[b]
<1>1. ASSUME EmptyRollback PROVE ckpt' = ckpt \/ (ckpt' = disk /\ \A b \in Block : disk[b] = buf[b])
    <2>1. dirty = {} /\ dirty2 = {}
        BY <1>1 DEF EmptyRollback, IInv, BlockState
    <2> QED BY <1>1, <2>1 DEF EmptyRollback, UnwrittenIsFlagged
<1>2. ASSUME NEW b \in Block, Modify(b) \/ Evict(b) \/ FlushBlock(b) PROVE ckpt' = ckpt
    BY <1>2 DEF Modify, Evict, FlushBlock
<1>3. ASSUME Record PROVE ckpt' = ckpt
    BY <1>3 DEF Record, SeekEntry, SeekCopy, WriteCopy, WriteEntry, WriteHeader
<1>4. ASSUME UNCHANGED vars \/ LockVolume \/ UnlockVolume \/ FlusherAge \/ FlusherBegin \/ FlushVolumeBegin
      PROVE  ckpt' = ckpt
    BY <1>4 DEF vars, LockVolume, UnlockVolume, FlusherAge, FlusherBegin, FlushVolumeBegin
<1> QED BY <1>1, <1>2, <1>3, <1>4 DEF Next

\* Emptying the journal never makes a checkpoint of some of the changed blocks:
\* the disk it declares good equals the cached image of every block.
THEOREM CheckpointsAreWhole == Spec => CheckpointIsWorkingState
<1>1. IInv /\ UnwrittenIsFlagged /\ [Next]_vars =>
        [ckpt' # ckpt => \A b \in Block : ckpt'[b] = buf[b]]_vars
    BY CheckpointStep
<1> QED BY <1>1, Inductive, NothingForgotten, PTL DEF Spec, CheckpointIsWorkingState
-----------------------------------------------------------------------------
(* The journal implements the abstract volume *)

Stored == [b \in Data |-> Recoverable(b)]
Working == [b \in Data |-> buf[b]]

\* What a load gives back of a data block is its checkpoint image.
StoredOK == Stored = [b \in Data |-> ckpt[b]]

LEMMA StoredIsCheckpoint == IInv => StoredOK
<1> SUFFICES ASSUME IInv, NEW b \in Data PROVE Recoverable(b) = ckpt[b]
    BY DEF Stored, StoredOK
<1>1. DataRecoverable
    BY IInvDataRecoverable
<1>2. CASE EntriesOf(b) = {}
    BY <1>1, <1>2 DEF DataRecoverable, Recoverable
<1>3. CASE EntriesOf(b) # {}
    <2>1. (CHOOSE i \in EntriesOf(b) : TRUE) \in EntriesOf(b)
        BY <1>3
    <2> QED BY <1>1, <1>3, <2>1 DEF DataRecoverable, Recoverable
<1> QED BY <1>2, <1>3

LEMMA WorkingType == TypeOK => Working \in [Data -> Content]
BY DEF TypeOK, CacheTypeOK, Working, Block

\* Steps other than Modify leave the working copy of the data blocks alone.
LEMMA WorkingStep ==
    ASSUME TypeOK, [Next]_vars
    PROVE  Working' = Working \/ \E c \in Block : Modify(c)
<1>1. ASSUME NEW b \in Block, Evict(b) \/ FlushBlock(b) PROVE Working' = Working
    BY <1>1 DEF Evict, FlushBlock, Working
<1>2. CASE SeekEntry \/ SeekCopy
    BY <1>2, RootBatIsNotData DEF SeekEntry, SeekCopy, Working, TypeOK, CacheTypeOK, Block
<1>3. CASE WriteCopy \/ WriteEntry \/ WriteHeader \/ EmptyRollback
    BY <1>3 DEF WriteCopy, WriteEntry, WriteHeader, EmptyRollback, Working
<1>4. CASE UNCHANGED vars \/ LockVolume \/ UnlockVolume \/ FlusherAge \/ FlusherBegin \/ FlushVolumeBegin
    BY <1>4 DEF vars, LockVolume, UnlockVolume, FlusherAge, FlusherBegin, FlushVolumeBegin, Working
<1> QED BY <1>1, <1>2, <1>3, <1>4 DEF Next, Record

LEMMA ModifyIsChange ==
    ASSUME IInv, IInv', StoredOK, StoredOK', NEW c \in Block, Modify(c)
    PROVE  \/ c \in Data /\ Volume!Change(c)
           \/ Working' = Working /\ Stored' = Stored
<1>1. Stored' = Stored
    <2>1. ckpt' = ckpt
        BY DEF Modify
    <2> QED BY <2>1 DEF StoredOK
<1>2. \A b \in Data : b # c => Working'[b] = Working[b]
    BY ModifyCache DEF Working, Block
<1>3. Working' \in [Data -> Content] /\ Working \in [Data -> Content]
    BY DEF IInv, TypeOK, CacheTypeOK, Working, Block
<1>4. CASE c \in Data
    BY <1>1, <1>2, <1>3, <1>4 DEF Volume!Change, Stored, Working
<1>5. CASE c \notin Data
    BY <1>1, <1>2, <1>3, <1>5
<1> QED BY <1>4, <1>5

LEMMA StepImplements ==
    ASSUME IInv, IInv', StoredOK, StoredOK', UnwrittenIsFlagged, [Next]_vars
    PROVE  Volume!Next \/ (Working' = Working /\ Stored' = Stored)
<1>1. CASE \E c \in Block : Modify(c)
    BY <1>1, ModifyIsChange DEF Volume!Next
<1>2. CASE Working' = Working
    <2>1. CASE ckpt' = ckpt
        <3>1. Stored' = Stored
            BY <2>1 DEF StoredOK
        <3> QED BY <1>2, <3>1
    <2>2. CASE ckpt' = disk /\ \A b \in Block : disk[b] = buf[b]
        <3>1. Stored' = Working
            <4>1. \A b \in Data : ckpt'[b] = buf[b]
                BY <2>2 DEF Block
            <4> QED BY <4>1 DEF Working, StoredOK
        <3> QED BY <1>2, <3>1 DEF Volume!Next, Volume!Checkpoint, Stored, Working
    <2> QED BY <2>1, <2>2, CheckpointStep
<1> QED BY <1>1, <1>2, WorkingStep DEF IInv

LEMMA InitImplements == Init => Volume!Init
<1> SUFFICES ASSUME Init PROVE Volume!Init
    OBVIOUS
<1>1. Stored = Working
    BY InitIInv, StoredIsCheckpoint DEF Init, Working, StoredOK
<1>2. Working \in [Data -> Content]
    BY InitTypeOK, WorkingType
<1> QED BY <1>1, <1>2 DEF Volume!Init, Stored, Working

\* Whatever is written in whatever order, and wherever a crash falls, what the
\* journal gives back of the data blocks changes only when a checkpoint replaces
\* all of it by the working state (vfs_os_record_rollback, volume_flusher,
\* vfs_os_empty_rollback).
THEOREM Refinement == Spec => ImplementsVolume
<1>1. IInv /\ IInv' /\ StoredOK /\ StoredOK' /\ UnwrittenIsFlagged /\ [Next]_vars =>
        Volume!Next \/ (Working' = Working /\ Stored' = Stored)
    BY StepImplements
<1>2. IInv /\ IInv' /\ StoredOK /\ StoredOK' /\ UnwrittenIsFlagged /\ [Next]_vars =>
        [Volume!Next]_<<[b \in Data |-> Recoverable(b)], [b \in Data |-> buf[b]]>>
    BY <1>1 DEF Stored, Working
<1> QED
    BY <1>2, InitImplements, StoredIsCheckpoint, Inductive, NothingForgotten, PTL DEF Spec, ImplementsVolume, Volume!Spec
-----------------------------------------------------------------------------
(* The chain of the journal file *)

\* The root BAT chains as many journal blocks as the open file counts, in the
\* cache and, because each extension is flushed at once, on the disk; a copy is
\* written only to a block that is chained.
JournalChain ==
    /\ jlen = buf[RootBat].j + 1
    /\ disk[RootBat].j = buf[RootBat].j
    /\ hdr.nextBlock <= jlen
    /\ pc = "writeCopy" => hdr.nextBlock < jlen

LEMMA InitJournalChain == Init => JournalChain
<1> SUFFICES ASSUME Init PROVE JournalChain
    OBVIOUS
<1>1. disk[RootBat].j = 0 /\ buf = disk
    BY RootBatIsBlock DEF Init, Zero
<1> QED BY <1>1 DEF Init, JournalChain, CleanHeader

\* Writing one slot does not change what the root BAT chains.
LEMMA WriteSlotChain ==
    ASSUME TypeOK, JournalChain, NEW b \in Block, WriteSlot(b)
    PROVE  disk'[RootBat].j = buf[RootBat].j
BY RootBatIsBlock DEF TypeOK, DiskTypeOK, WriteSlot, JournalChain

\* Neither does a change of a block's data, nor a longer rollback file.
LEMMA BufferChain ==
    ASSUME TypeOK, NEW b \in Block, NEW n \in Nat
    PROVE  /\ [buf EXCEPT ![b].v = n][RootBat].j = buf[RootBat].j
           /\ [buf EXCEPT ![RootBat].e = n][RootBat].j = buf[RootBat].j
<1>1. buf \in [Block -> Content]
    BY DEF TypeOK, CacheTypeOK
<1> QED BY <1>1, RootBatIsBlock DEF Content

LEMMA SeekCopyChain == ASSUME TypeOK, JournalChain, SeekCopy PROVE JournalChain'
<1>1. /\ hdr' = hdr /\ hdr.nextBlock \in Nat /\ buf \in [Block -> Content] /\ disk \in [Block -> Content]
      /\ jlen \in Nat
    BY DEF SeekCopy, TypeOK, DiskTypeOK, CacheTypeOK, JournalTypeOK, Header
<1>2. CASE hdr.nextBlock >= jlen
    <2> DEFINE bat == [buf[RootBat] EXCEPT !.j = @ + 1]
    <2>1. bat.j = buf[RootBat].j + 1
        BY <1>1, RootBatIsBlock DEF Content
    <2>2. jlen' = jlen + 1 /\ buf'[RootBat] = bat /\ disk'[RootBat] = bat
        BY <1>1, <1>2, RootBatIsBlock DEF SeekCopy
    <2> HIDE DEF bat
    <2> QED BY <1>1, <2>1, <2>2 DEF JournalChain
<1>3. CASE ~(hdr.nextBlock >= jlen)
    <2>1. jlen' = jlen /\ buf' = buf /\ disk' = disk
        BY <1>3 DEF SeekCopy
    <2> QED BY <1>1, <1>3, <2>1 DEF JournalChain
<1> QED BY <1>2, <1>3

LEMMA NextJournalChain == TypeOK /\ JournalChain /\ [Next]_vars => JournalChain'
<1> SUFFICES ASSUME TypeOK, JournalChain, [Next]_vars PROVE JournalChain'
    OBVIOUS
<1>1. hdr.nextBlock \in Nat /\ jlen \in Nat /\ hdr \in Header
    BY DEF TypeOK, JournalTypeOK, Header
<1>2. ASSUME NEW b \in Block, Modify(b) PROVE JournalChain'
    <2>1. version + 1 \in Nat
        BY DEF TypeOK, ControlTypeOK
    <2>2. buf'[RootBat].j = buf[RootBat].j
        BY <1>2, <2>1, BufferChain DEF Modify
    <2>3. hdr'.nextBlock = hdr.nextBlock /\ disk' = disk /\ jlen' = jlen /\ pc' # "writeCopy"
        BY <1>1, <1>2 DEF Modify, Header
    <2> QED BY <2>2, <2>3 DEF JournalChain
<1>3. ASSUME NEW b \in Block, Evict(b) \/ FlushBlock(b) PROVE JournalChain'
    <2>1. disk'[RootBat].j = buf[RootBat].j
        BY <1>3, WriteSlotChain DEF Evict, FlushBlock
    <2>2. buf' = buf /\ hdr' = hdr /\ jlen' = jlen /\ pc' # "writeCopy"
        BY <1>3 DEF Evict, FlushBlock
    <2> QED BY <2>1, <2>2 DEF JournalChain
<1>4. CASE SeekEntry
    <2>1. buf' = buf \/ buf' = [buf EXCEPT ![RootBat].e = 1]
        BY <1>4 DEF SeekEntry
    <2>3. [buf EXCEPT ![RootBat].e = 1][RootBat].j = buf[RootBat].j
        BY BufferChain, RootBatIsBlock
    <2>4. buf'[RootBat].j = buf[RootBat].j
        BY <2>1, <2>3
    <2>2. hdr'.nextBlock = hdr.nextBlock /\ disk' = disk /\ jlen' = jlen /\ pc' # "writeCopy"
        BY <1>1, <1>4 DEF SeekEntry, Header
    <2> QED BY <2>4, <2>2 DEF JournalChain
<1>5. CASE WriteCopy
    <2>1. hdr'.nextBlock = hdr.nextBlock + 1 /\ hdr.nextBlock < jlen
        BY <1>1, <1>5 DEF WriteCopy, Header, JournalChain
    <2>2. disk' = disk /\ buf' = buf /\ jlen' = jlen /\ pc' # "writeCopy"
        BY <1>5 DEF WriteCopy
    <2> QED BY <1>1, <2>1, <2>2 DEF JournalChain
<1>6. CASE EmptyRollback
    <2>1. disk' = disk /\ buf' = buf /\ jlen' = jlen /\ pc' # "writeCopy"
        BY <1>6 DEF EmptyRollback
    <2>2. hdr' = hdr \/ hdr'.nextBlock = 0
        BY <1>6 DEF EmptyRollback, CleanHeader
    <2> QED BY <1>1, <2>1, <2>2 DEF JournalChain
<1>7. ASSUME \/ WriteEntry \/ WriteHeader \/ LockVolume \/ UnlockVolume \/ FlusherAge \/ FlusherBegin
             \/ FlushVolumeBegin \/ UNCHANGED vars
      PROVE  JournalChain'
    <2>1. /\ hdr' = hdr /\ disk' = disk /\ buf' = buf /\ jlen' = jlen
          /\ pc' = "writeCopy" => pc = "writeCopy"
        BY <1>7 DEF WriteEntry, WriteHeader, LockVolume, UnlockVolume, FlusherAge, FlusherBegin,
                    FlushVolumeBegin, vars
    <2> QED BY <2>1 DEF JournalChain
<1> QED BY <1>2, <1>3, <1>4, <1>5, <1>6, <1>7, SeekCopyChain DEF Next, Record

\* Every copy a committed entry names lies in a block the root BAT on the disk
\* chains to the journal file: the extension of vfs_os_record_rollback flushes
\* that BAT before the copy is written, the copy before its entry counts.
THEOREM CopiesAreReachable == Spec => []CopyReachable
<1>1. Spec => []JournalChain
    BY InitJournalChain, NextJournalChain, Typing, PTL DEF Spec
<1>2. ASSUME IInv, JournalChain, NEW i \in Committed, ~entDisk[i].zero
      PROVE  entDisk[i].at <= disk[RootBat].j
    <2>1. i \in 0 .. hdrDisk.nextEntry - 1
        BY <1>2 DEF Committed
    <2>2. i \in 0 .. hdr.nextEntry - 1 /\ entDisk[i] = ent[i] /\ ~Uncopied(i)
        BY <1>2, <2>1, CountedEntries
    <2>3. ent[i].at < hdr.nextBlock
        BY <1>2, <2>2 DEF IInv, CachedEntries
    <2>4. hdr.nextBlock <= disk[RootBat].j + 1
        BY <1>2 DEF JournalChain
    <2>5. hdr.nextBlock \in Nat /\ disk[RootBat].j \in Nat /\ hdr.nextEntry \in Nat
        BY <1>2, RootBatIsBlock DEF IInv, TypeOK, DiskTypeOK, JournalTypeOK, Header, Content
    <2>6. ent[i].at \in Nat
        <3>1. i \in Index
            BY <1>2, <2>2, <2>5, BoundsAssumption DEF Index, IInv, Room
        <3> QED BY <1>2, <3>1 DEF IInv, TypeOK, JournalTypeOK, Entry
    <2> QED BY <2>2, <2>3, <2>4, <2>5, <2>6
<1>3. IInv /\ JournalChain => CopyReachable
    BY <1>2 DEF CopyReachable
<1> QED BY <1>1, <1>3, Inductive, PTL
-----------------------------------------------------------------------------
(* What the replay's own count of the journal blocks gives *)

\* The number of entries before entry n that have a copy in the journal.
Copied(e, n) == {k \in 0 .. n - 1 : ~e[k].zero}
CopiesBefore(e, n) == Cardinality(Copied(e, n))

LEMMA CopiesType ==
    ASSUME NEW e, NEW n \in Nat
    PROVE  IsFiniteSet(Copied(e, n)) /\ CopiesBefore(e, n) \in Nat
<1>1. IsFiniteSet(0 .. n - 1)
    BY FS_Interval
<1>2. Copied(e, n) \in SUBSET (0 .. n - 1)
    BY DEF Copied
<1>3. IsFiniteSet(Copied(e, n))
    BY <1>1, <1>2, FS_Subset
<1> QED BY <1>3, FS_CardinalityType DEF CopiesBefore

LEMMA NoCopies == ASSUME NEW e PROVE CopiesBefore(e, 0) = 0
<1>1. Copied(e, 0) = {}
    BY DEF Copied
<1> QED BY <1>1, FS_EmptySet DEF CopiesBefore

LEMMA SameCopies ==
    ASSUME NEW e, NEW f, NEW n \in Nat, \A k \in 0 .. n - 1 : e[k].zero = f[k].zero
    PROVE  CopiesBefore(e, n) = CopiesBefore(f, n)
<1>1. Copied(e, n) = Copied(f, n)
    BY DEF Copied
<1> QED BY <1>1 DEF CopiesBefore

\* Entry n adds one to the count unless it stands for a block of zeros.
LEMMA OneMoreEntry ==
    ASSUME NEW e, NEW n \in Nat
    PROVE  /\ e[n].zero => CopiesBefore(e, n + 1) = CopiesBefore(e, n)
           /\ ~e[n].zero => CopiesBefore(e, n + 1) = CopiesBefore(e, n) + 1
<1>1. \A k : k \in 0 .. (n + 1) - 1 <=> k \in 0 .. n - 1 \/ k = n
    OBVIOUS
<1>2. ASSUME e[n].zero PROVE Copied(e, n + 1) = Copied(e, n)
    BY <1>1, <1>2 DEF Copied
<1>3. ASSUME ~e[n].zero PROVE Copied(e, n + 1) = Copied(e, n) \cup {n}
    BY <1>1, <1>3 DEF Copied
<1>4. n \notin Copied(e, n)
    BY DEF Copied
<1>5. Cardinality(Copied(e, n) \cup {n}) = Cardinality(Copied(e, n)) + 1
    BY <1>4, CopiesType, FS_AddElement
<1> QED BY <1>2, <1>3, <1>5 DEF CopiesBefore

\* The record in progress holds a journal block that nextBlock does not count.
Taken == hdr.nextBlock + (IF pc \in {"seekCopy", "writeCopy"} THEN 1 ELSE 0)

\* Each entry's journal block is the number of the copies recorded before it.
CountedCopies ==
    /\ \A i \in 0 .. hdr.nextEntry - 1 : ent[i].at = CopiesBefore(ent, i)
    /\ Taken = CopiesBefore(ent, hdr.nextEntry)

LEMMA InitCountedCopies == Init => CountedCopies
<1> SUFFICES ASSUME Init PROVE CountedCopies
    OBVIOUS
<1>1. hdr.nextEntry = 0 /\ hdr.nextBlock = 0 /\ pc = "free"
    BY DEF Init, CleanHeader
<1> QED BY <1>1, NoCopies DEF CountedCopies, Taken

LEMMA SeekEntryCounts == ASSUME IInv, CountedCopies, SeekEntry PROVE CountedCopies'
<1> DEFINE n == hdr.nextEntry
           zero == clean[Cur] = Zero
<1>1. /\ n \in Nat /\ hdr.nextBlock \in Nat /\ pc = "seekEntry" /\ hdr \in Header
      /\ ent \in [Index -> Entry]
    BY DEF IInv, TypeOK, JournalTypeOK, Header, SeekEntry
<1>2. rec \in 1 .. 2
    <2>1. pc \in Recording
        BY <1>1 DEF Recording
    <2>2. rec \in 1 .. Len(pending) /\ (Len(pending) = 1 \/ Len(pending) = 2)
        BY <2>1 DEF IInv, PendingShape
    <2>3. CASE Len(pending) = 1
        BY <2>2, <2>3
    <2>4. CASE Len(pending) = 2
        BY <2>2, <2>4
    <2> QED BY <2>2, <2>3, <2>4
<1>3. n \in Index
    BY <1>1, <1>2, BoundsAssumption DEF IInv, Room, Index
<1>4. /\ ent'[n].zero = zero /\ ent'[n].at = hdr.nextBlock
      /\ \A k \in 0 .. n - 1 : ent'[k] = ent[k]
    <2>1. \A k \in 0 .. n - 1 : k \in Index /\ k # n
        BY <1>1, <1>3, BoundsAssumption DEF Index
    <2> QED BY <1>1, <1>3, <2>1 DEF SeekEntry
<1>5. /\ hdr'.nextEntry = n + 1 /\ hdr'.nextBlock = hdr.nextBlock
      /\ pc' = IF zero THEN "writeEntry" ELSE "seekCopy"
    BY <1>1 DEF SeekEntry, Header
<1>6. hdr.nextBlock = CopiesBefore(ent, n)
    BY <1>1 DEF CountedCopies, Taken
<1>7. ASSUME NEW k \in 0 .. n PROVE CopiesBefore(ent', k) = CopiesBefore(ent, k)
    <2>1. k \in Nat /\ \A j \in 0 .. k - 1 : ent'[j].zero = ent[j].zero
        BY <1>1, <1>4
    <2> QED BY <2>1, SameCopies
<1>8. Taken' = CopiesBefore(ent', n + 1)
    <2>1. CopiesBefore(ent', n) = hdr.nextBlock
        BY <1>1, <1>6, <1>7
    <2> HIDE DEF zero
    <2>2. CASE zero
        <3>1. CopiesBefore(ent', n + 1) = CopiesBefore(ent', n)
            BY <1>1, <1>4, <2>2, OneMoreEntry
        <3>2. Taken' = hdr.nextBlock
            BY <1>1, <1>5, <2>2 DEF Taken
        <3> QED BY <2>1, <3>1, <3>2
    <2>3. CASE ~zero
        <3>1. CopiesBefore(ent', n + 1) = CopiesBefore(ent', n) + 1
            BY <1>1, <1>4, <2>3, OneMoreEntry
        <3>2. Taken' = hdr.nextBlock + 1
            BY <1>1, <1>5, <2>3 DEF Taken
        <3> QED BY <2>1, <3>1, <3>2
    <2> QED BY <2>2, <2>3
<1>9. ASSUME NEW k \in 0 .. n PROVE ent'[k].at = CopiesBefore(ent', k)
    <2>1. CASE k = n
        BY <1>4, <1>6, <1>7, <2>1
    <2>2. CASE k \in 0 .. n - 1
        BY <1>4, <1>7, <2>2 DEF CountedCopies
    <2> QED BY <1>1, <2>1, <2>2
<1>10. 0 .. (n + 1) - 1 = 0 .. n
    BY <1>1
<1> QED BY <1>5, <1>8, <1>9, <1>10 DEF CountedCopies

LEMMA NextCountedCopies == IInv /\ CountedCopies /\ [Next]_vars => CountedCopies'
<1> SUFFICES ASSUME IInv, CountedCopies, [Next]_vars PROVE CountedCopies'
    OBVIOUS
<1>1. hdr \in Header /\ hdr.nextBlock \in Nat
    BY DEF IInv, TypeOK, JournalTypeOK, Header
<1>2. ASSUME ent' = ent, hdr'.nextEntry = hdr.nextEntry, Taken' = Taken PROVE CountedCopies'
    BY <1>2 DEF CountedCopies
<1>3. ASSUME NEW b \in Block, Modify(b) PROVE CountedCopies'
    BY <1>1, <1>2, <1>3 DEF Modify, Taken, Header
<1>4. CASE WriteCopy
    BY <1>1, <1>2, <1>4 DEF WriteCopy, Taken, Header
<1>5. CASE SeekCopy
    BY <1>2, <1>5 DEF SeekCopy, Taken
<1>6. CASE EmptyRollback
    <2>1. CASE hdr.dirty
        BY <1>6, <2>1, NoCopies DEF EmptyRollback, CleanHeader, CountedCopies, Taken
    <2>2. CASE ~hdr.dirty
        BY <1>2, <1>6, <2>2 DEF EmptyRollback, Taken
    <2> QED BY <2>1, <2>2
<1>7. ASSUME \/ WriteEntry \/ WriteHeader \/ LockVolume \/ UnlockVolume \/ FlusherAge \/ FlusherBegin
             \/ FlushVolumeBegin \/ UNCHANGED vars \/ \E b \in Block : Evict(b) \/ FlushBlock(b)
      PROVE  CountedCopies'
    <2>1. /\ hdr' = hdr /\ ent' = ent
          /\ pc' \in {"seekCopy", "writeCopy"} <=> pc \in {"seekCopy", "writeCopy"}
        BY <1>7 DEF WriteEntry, WriteHeader, LockVolume, UnlockVolume, FlusherAge, FlusherBegin,
                    FlushVolumeBegin, vars, Evict, FlushBlock
    <2> QED BY <1>2, <2>1 DEF Taken
<1> QED BY <1>3, <1>4, <1>5, <1>6, <1>7, SeekEntryCounts DEF Next, Record

\* Every nonempty set of naturals has a least element: the intervals from 0 are
\* finite sets, which strict inclusion orders well.
LEMMA LeastElement ==
    ASSUME NEW T, T \subseteq Nat, T # {}
    PROVE  \E m \in T : \A n \in T : m <= n
<1> DEFINE Upto == {0 .. n : n \in T}
<1>1. Upto \subseteq FiniteSubsetsOf(Nat)
    <2>1. ASSUME NEW n \in T PROVE 0 .. n \in SUBSET Nat /\ IsFiniteSet(0 .. n)
        BY FS_Interval
    <2> QED BY <2>1 DEF FiniteSubsetsOf
<1>2. Upto # {}
    OBVIOUS
<1>3. PICK u \in Upto : \A w \in Upto : ~(<<w, u>> \in StrictSubsetOrdering(Nat))
    <2> HIDE DEF Upto
    <2> QED BY <1>1, <1>2, FS_StrictSubsetOrderingWellFounded, WFMin, Zenon
<1>4. PICK m \in T : u = 0 .. m
    OBVIOUS
<1>5. ASSUME NEW n \in T, n < m PROVE FALSE
    <2>1. 0 .. n \in SUBSET Nat /\ 0 .. m \in SUBSET Nat /\ 0 .. n \subseteq 0 .. m /\ 0 .. n # 0 .. m
        <3>1. m \in 0 .. m /\ m \notin 0 .. n /\ m \in Nat /\ n \in Nat
            BY <1>5
        <3> QED BY <3>1, <1>5
    <2>2. <<0 .. n, 0 .. m>> \in StrictSubsetOrdering(Nat)
        BY <2>1 DEF StrictSubsetOrdering
    <2> QED BY <1>3, <1>4, <2>2
<1> QED BY <1>5

\* So a nonempty bounded set of naturals has a last element.
LEMMA LastElement ==
    ASSUME NEW N \in Nat, NEW T, T \subseteq 0 .. N - 1, T # {}
    PROVE  \E m \in T : \A k \in T : k <= m
<1> DEFINE Rest == {N - k : k \in T}
<1>1. Rest \subseteq Nat /\ Rest # {}
    OBVIOUS
<1>2. PICK r \in Rest : \A s \in Rest : r <= s
    <2> HIDE DEF Rest
    <2> QED BY <1>1, LeastElement
<1>3. PICK m \in T : r = N - m
    OBVIOUS
<1>4. ASSUME NEW k \in T PROVE k <= m
    <2>1. N - k \in Rest
        OBVIOUS
    <2>2. N - m <= N - k
        BY <1>2, <1>3, <2>1
    <2>3. k \in Nat /\ m \in Nat
        OBVIOUS
    <2> QED BY <2>2, <2>3
<1> QED BY <1>4

\* In a plain journal the replay counts its way to each entry's own copy.
LEMMA ReplayFindsCopy ==
    ASSUME IInv, CountedCopies, PlainJournal, NEW i \in Committed
    PROVE  ReplayImage(i) = Image(i)
<1>1. i \in 0 .. hdrDisk.nextEntry - 1 /\ hdrDisk.nextEntry \in Nat /\ i \in Nat
    BY DEF Committed, IInv, TypeOK, DiskTypeOK, Header
<1>2. ASSUME NEW k \in 0 .. i PROVE k \in Committed /\ entDisk[k] = ent[k]
    <2>1. k \in 0 .. hdrDisk.nextEntry - 1
        BY <1>1
    <2> QED BY <2>1, CountedEntries DEF Committed
<1>3. i \in 0 .. hdr.nextEntry - 1
    BY <1>1, CountedEntries
<1>4. BigSector(i) = CopiesBefore(entDisk, i)
    <2>1. ASSUME NEW k \in 0 .. i - 1 PROVE entDisk[k].blk \in Bats => ~entDisk[k].zero
        <3>1. k \in 0 .. i
            BY <1>1
        <3> QED BY <1>2, <3>1 DEF PlainJournal
    <2> QED BY <2>1 DEF BigSector, CopiesBefore, Copied
<1>5. CopiesBefore(entDisk, i) = CopiesBefore(ent, i)
    <2>1. \A k \in 0 .. i - 1 : entDisk[k].zero = ent[k].zero
        BY <1>1, <1>2
    <2> QED BY <1>1, <2>1, SameCopies
<1>6. entDisk[i].at = BigSector(i)
    BY <1>1, <1>2, <1>3, <1>4, <1>5 DEF CountedCopies
<1> QED BY <1>6 DEF ReplayImage, Image

LEMMA ReplayedIsCheckpoint ==
    ASSUME IInv, CountedCopies, PlainJournal, NEW b \in Data
    PROVE  Replayed(b) = ckpt[b]
<1>1. CASE EntriesOf(b) = {}
    BY <1>1, IInvDataRecoverable DEF Replayed, DataRecoverable
<1>2. CASE EntriesOf(b) # {}
    <2> DEFINE m == CHOOSE i \in EntriesOf(b) : \A k \in EntriesOf(b) : k <= i
    <2>1. EntriesOf(b) \subseteq 0 .. hdrDisk.nextEntry - 1 /\ hdrDisk.nextEntry \in Nat
        BY DEF EntriesOf, Committed, IInv, TypeOK, DiskTypeOK, Header
    <2>2. m \in EntriesOf(b)
        BY <1>2, <2>1, LastElement
    <2>3. ReplayImage(m) = Image(m)
        BY <2>2, ReplayFindsCopy DEF EntriesOf
    <2>4. Image(m) = ckpt[b]
        BY <2>2, IInvDataRecoverable DEF DataRecoverable
    <2> QED BY <1>2, <2>3, <2>4 DEF Replayed
<1> QED BY <1>1, <1>2

\* vfs_os_process_rollback stores no journal block with an entry and counts
\* them again; as long as the entries fit in the header's block and no BAT was
\* recorded as zero, that gives every data block its checkpoint image back.
THEOREM ReplayIsExact == Spec => []ReplayRestoresData
<1>1. Spec => []CountedCopies
    BY InitCountedCopies, NextCountedCopies, Inductive, PTL DEF Spec
<1>2. IInv /\ CountedCopies => ReplayRestoresData
    BY ReplayedIsCheckpoint DEF ReplayRestoresData
<1> QED BY <1>1, <1>2, Inductive, PTL
===============================================================================
