---------------------------- MODULE RollbackReplay ----------------------------
(***************************************************************************)
(* Loading an object-store volume whose last session ended in a crash      *)
(* (vfs_os_process_rollback, in src/src/sack/sack.cc), and using it.       *)
(*                                                                         *)
(* The replay copies the recorded images into the few ROLLBACK slots of    *)
(* the cache, which are reused oldest first, and clears the journal's      *)
(* header.  Afterwards the volume reads blocks into other slots, changes   *)
(* and journals them.  Flushes leave the ROLLBACK slots alone: what a      *)
(* slot holds is written when the slot is claimed for something else.      *)
(*                                                                         *)
(* How one record is made crash-proof is the matter of RollbackJournal;    *)
(* here it is one step.                                                    *)
(***************************************************************************)
EXTENDS Naturals, FiniteSets, SequencesExt

CONSTANTS
    Data,           \* segments that hold file, name or directory blocks
    Bats,           \* segments that hold block allocation tables
    Slots,          \* ROLLBACK slots besides the one locked for the header (5 in the code)
    MaxChanges      \* bound: changes of blocks in a behaviour

ASSUME BlocksAssumption == Data \cap Bats = {} /\ IsFiniteSet(Data \cup Bats)
\* Blocks are not taken for journal blocks, which are known by their numbers.
ASSUME SegmentsAssumption == (Data \cup Bats) \cap Nat = {}
\* A block and its journal block are in slots at the same time.
ASSUME SlotsAssumption == Slots \in Nat \ {0, 1}
ASSUME ChangesAssumption == MaxChanges \in Nat

Block == Data \cup Bats

\* 0 is a block of zeros, 1 what a checkpoint left, 2 what the crash interrupted;
\* the changes of a behaviour come after these.
Zero == 0
Interrupted == 2
Content == 0 .. 2 + MaxChanges

VARIABLES
    disk,           \* blocks on the disk
    log,            \* committed entries, with the images they were made with
    rb,             \* ROLLBACK slots, the least recently used first
    buf, clean,     \* the other slots: the images of the blocks in cached
    cached, dirty,
    pc, pass, next, \* place in the load, its pass, and the entry it is at
    changes,        \* number of changes so far
    restored        \* ghost: entries restored by this load, of blocks not changed since

cacheVars == <<buf, clean, cached, dirty>>
loadVars == <<pc, pass, next>>
vars == <<disk, log, rb, cacheVars, loadVars, changes, restored>>

Entry == [blk : Block, img : Content]

\* A ROLLBACK slot holds a block, or a block of the journal (known by its number).
Slot == [seg : Block \cup Nat, img : Content, dirty : BOOLEAN]

TypeOK ==
    /\ disk \in [Block -> Content]
    /\ log \in Seq(Entry)
    /\ rb \in Seq(Slot) /\ Len(rb) <= Slots
    /\ \A i, k \in DOMAIN rb : rb[i].seg = rb[k].seg => i = k
    /\ buf \in [Block -> Content] /\ clean \in [Block -> Content]
    /\ cached \subseteq Block /\ dirty \subseteq cached
    /\ pc \in {"down", "claim", "copy", "run"} /\ pass \in {"data", "bats"}
    /\ next \in Nat /\ changes \in 0 .. MaxChanges
    /\ restored \subseteq Entry

Logged == {log[i].blk : i \in DOMAIN log}

\* A session has crashed: some blocks were changed on the disk, and the entry of
\* each has its image at the checkpoint.  No BAT was recorded as zero.
Init ==
    /\ \E image \in [Block -> {Zero, 1}], blocks \in SUBSET Block :
           /\ \A b \in Bats : image[b] # Zero
           /\ \E order \in SetToSeqs(blocks) :
                  log = [i \in DOMAIN order |-> [blk |-> order[i], img |-> image[order[i]]]]
           /\ disk \in [Block -> Content]
           /\ \A b \in Block : disk[b] = image[b] \/ (b \in blocks /\ disk[b] = Interrupted)
    /\ rb = <<>>
    /\ buf = disk /\ clean = disk /\ cached = {} /\ dirty = {}
    /\ pc = "down" /\ pass = "data" /\ next = 1
    /\ changes = 0
    /\ restored = {}
-----------------------------------------------------------------------------
\* The disk and the ROLLBACK slots, as one value.
Memory == [disk |-> disk, rb |-> rb]

\* The ROLLBACK slots that hold a segment: one or none.
Holding(slots, seg) == {i \in DOMAIN slots : slots[i].seg = seg}

\* The slots with slot i as the newest.
Newest(slots, i) == Append(RemoveAt(slots, i), slots[i])

\* mutant: the slot that is written is not given up.
UseGrows(m, seg) ==
    LET held == Holding(m.rb, seg)
        read == [seg |-> seg, img |-> IF seg \in Block THEN m.disk[seg] ELSE Zero, dirty |-> FALSE]
    IN  IF held # {} THEN [m EXCEPT !.rb = Newest(@, CHOOSE i \in held : TRUE)]
        ELSE [m EXCEPT !.rb = Append(@, read)]

\* _os_updateCacheAge_ over the ROLLBACK slots: the slot that holds the segment
\* becomes the newest; if none does, the oldest is reused, written first if it was
\* changed, and the segment read into it.
Use(m, seg) ==
    LET held == Holding(m.rb, seg)
        full == Len(m.rb) = Slots
        old == Head(m.rb)
        after == IF full /\ old.dirty THEN [m.disk EXCEPT ![old.seg] = old.img] ELSE m.disk
        read == [seg |-> seg, img |-> IF seg \in Block THEN after[seg] ELSE Zero, dirty |-> FALSE]
    IN  IF held # {} THEN [m EXCEPT !.rb = Newest(@, CHOOSE i \in held : TRUE)]
        ELSE [disk |-> after, rb |-> Append(IF full THEN Tail(m.rb) ELSE m.rb, read)]

\* The image is copied into the block's slot.
Put(m, seg, img, changed) ==
    [m EXCEPT !.rb = [i \in DOMAIN @ |->
        IF @[i].seg = seg THEN [seg |-> seg, img |-> img, dirty |-> changed \/ @[i].dirty] ELSE @[i]]]

Becomes(m) == disk' = m.disk /\ rb' = m.rb

\* bigSector: entries of zeros have no block in the journal.
JournalBlock(i) == Cardinality({k \in 1 .. i - 1 : log[k].img # Zero})

\* The load reads the BATs (of many, the last ones stay in the cache) and starts
\* the replay if the header says that the journal is in use.
Load ==
    /\ pc = "down"
    /\ cached' \in SUBSET Bats
    /\ buf' = disk /\ clean' = disk /\ dirty' = {}
    /\ rb' = <<>>
    /\ pc' = IF log = <<>> THEN "run" ELSE "claim"
    /\ pass' = "data" /\ next' = 1
    /\ restored' = {}
    /\ UNCHANGED <<disk, log, changes>>

\* The first pass takes the entries of data blocks, the second those of BATs.
InPass(b) == (b \in Bats) = (pass = "bats")

\* An entry claims a ROLLBACK slot for its block ...
ClaimTarget ==
    /\ pc = "claim"
    /\ next <= Len(log)
    /\ IF InPass(log[next].blk)
         THEN /\ Becomes(Use(Memory, log[next].blk))
              /\ pc' = "copy" /\ UNCHANGED next
         ELSE next' = next + 1 /\ UNCHANGED <<disk, rb, pc>>
    /\ UNCHANGED <<log, cacheVars, pass, changes, restored>>

\* mutant: the slot of a restored block is not marked changed.
MarksChanged(b) == FALSE

\* The slots of data blocks are smudged, those of BATs are not.
Smudged(b) == b \in Data

\* ... and, unless the block was zero, one for the journal block, whose image is
\* copied to the slot, and to the block's other slot if it has one.
CopyImage ==
    /\ pc = "copy"
    /\ LET entry == log[next]
           b == entry.blk
           m == IF entry.img = Zero THEN Memory ELSE Use(Memory, JournalBlock(next))
           other == [buf EXCEPT ![b] = entry.img]
       IN /\ Becomes(Put(m, b, entry.img, Smudged(b)))
          /\ IF b \in cached THEN buf' = other /\ clean' = [clean EXCEPT ![b] = entry.img]
             ELSE UNCHANGED <<buf, clean>>
          /\ restored' = restored \cup {entry}
    /\ pc' = "claim" /\ next' = next + 1
    /\ UNCHANGED <<log, cached, dirty, pass, changes>>

BatsPass ==
    /\ pc = "claim" /\ pass = "data"
    /\ next > Len(log)
    /\ pass' = "bats" /\ next' = 1
    /\ UNCHANGED <<disk, log, rb, cacheVars, pc, changes, restored>>

\* mutant: the journal's header is cleared when the data blocks are done.
FinishReplayEarly ==
    /\ pc = "claim" /\ pass = "data"
    /\ next > Len(log)
    /\ log' = <<>>
    /\ pass' = "bats"
    /\ UNCHANGED <<disk, rb, cacheVars, pc, next, changes, restored>>

\* The header is cleared and flushed, and the volume is used.
FinishReplay ==
    /\ pc = "claim" /\ pass = "bats"
    /\ next > Len(log)
    /\ log' = <<>>
    /\ pc' = "run"
    /\ UNCHANGED <<disk, rb, cacheVars, pass, next, changes, restored>>
-----------------------------------------------------------------------------
\* A block is read into a slot of its own kind.
Read(b) ==
    /\ pc = "run"
    /\ b \notin cached
    /\ buf' = [buf EXCEPT ![b] = disk[b]]
    /\ clean' = [clean EXCEPT ![b] = disk[b]]
    /\ cached' = cached \cup {b}
    /\ UNCHANGED <<disk, log, rb, dirty, loadVars, changes, restored>>

\* A block is changed; the first time since the checkpoint its clean image is
\* recorded, which takes a ROLLBACK slot for the journal block.
Modify(b) ==
    /\ pc = "run"
    /\ b \in cached
    /\ changes < MaxChanges
    /\ changes' = changes + 1
    /\ IF b \in Logged THEN UNCHANGED <<disk, rb, log>>
       ELSE /\ Becomes(IF clean[b] = Zero THEN Memory ELSE Use(Memory, JournalBlock(Len(log) + 1)))
            /\ log' = Append(log, [blk |-> b, img |-> clean[b]])
    /\ buf' = [buf EXCEPT ![b] = 3 + changes]
    /\ dirty' = dirty \cup {b}
    /\ restored' = {r \in restored : r.blk # b}
    /\ UNCHANGED <<clean, cached, loadVars>>

Written(S) == disk' = [b \in Block |-> IF b \in S THEN buf[b] ELSE disk[b]]

\* The slot of a block is claimed for another.
Evict(b) ==
    /\ pc = "run"
    /\ b \in cached
    /\ Written({b} \cap dirty)
    /\ cached' = cached \ {b} /\ dirty' = dirty \ {b}
    /\ UNCHANGED <<log, rb, buf, clean, loadVars, changes, restored>>

\* A flush, of the flusher or of the API, writes the changed slots below the
\* ROLLBACK slots and empties the journal.
Flush ==
    /\ pc = "run"
    /\ log # <<>>
    /\ Written(dirty)
    /\ clean' = [b \in Block |-> IF b \in dirty THEN buf[b] ELSE clean[b]]
    /\ dirty' = {}
    /\ log' = <<>>
    /\ UNCHANGED <<rb, buf, cached, loadVars, changes, restored>>

\* The program stops anywhere; what is on the disk stays.
Crash ==
    /\ pc # "down"
    /\ pc' = "down"
    /\ rb' = <<>> /\ cached' = {} /\ dirty' = {}
    /\ buf' = disk /\ clean' = disk
    /\ restored' = {}
    /\ pass' = "data" /\ next' = 1
    /\ UNCHANGED <<disk, log, changes>>

Next ==
    \/ Load \/ ClaimTarget \/ CopyImage \/ BatsPass \/ FinishReplay
    \/ \E b \in Block : Read(b) \/ Modify(b) \/ Evict(b)
    \/ Flush
    \/ Crash

Spec == Init /\ [][Next]_vars
-----------------------------------------------------------------------------
\* What a load that starts here gives a block.
Target(b) ==
    IF b \in Logged THEN log[CHOOSE i \in DOMAIN log : log[i].blk = b].img ELSE disk[b]

\* Replaying is idempotent: however far a replay comes, and however often it is cut
\* off by a crash and begun again, the next one restores the same contents.
ReplayIsIdempotent ==
    [][pc # "run" /\ pc' # "run" => \A b \in Block : Target(b)' = Target(b)]_vars

\* A data block the replay restored is on the disk or in a ROLLBACK slot that will
\* be written: no claim of a slot, by the replay or by the journal afterwards, and
\* no flush drops it before its block is changed.
RestoredIsKept ==
    \A r \in restored : r.blk \in Data =>
        \/ disk[r.blk] = r.img
        \/ \E i \in DOMAIN rb : rb[i].seg = r.blk /\ rb[i].img = r.img /\ rb[i].dirty

-----------------------------------------------------------------------------
\* What the code's comments say and the code does not do: no configuration lists
\* the next three, TLC finds them violated under RollbackReplay.cfg.

\* "after processing, the disk should be back to 0; so don't rollback NEXT reload
\* again." (sack.cc, where the header is cleared): the restored data blocks are on
\* the disk when the journal is given up.
RestoredOnDisk ==
    [][pc = "claim" /\ pc' = "run" =>
          \A r \in restored : r.blk \in Data => disk[r.blk] = r.img]_vars

\* The same comment, for BATs: a restored BAT is on the disk or will be written.
BatsAreKept ==
    \A r \in restored : r.blk \in Bats /\ pc = "run" =>
        \/ disk[r.blk] = r.img
        \/ \E i \in DOMAIN rb : rb[i].seg = r.blk /\ rb[i].img = r.img /\ rb[i].dirty

\* "need to handle rollback before directory loading otherwise they will cache
\* sectors that are duplicated here." (sack.cc, in _os_ValidateBAT): a data block
\* that was restored and not changed since is read as restored.
RunningSeesRestored ==
    \A r \in restored : r.blk \in Data \cap cached => buf[r.blk] = r.img
=============================================================================
