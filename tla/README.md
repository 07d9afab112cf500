# Verification of sack.vfs

sack.vfs is a Node addon over the SACK library: virtual file systems, an object
store, networking, parsers, process control and more.  This directory holds TLA+
models of the parts whose failures cost the most and show the least in tests:

* the *object-store volume* (`sack_vfs_os_*` in `src/src/sack/sack.cc`), a file
  system in one file: its sector cache and rollback journal, the replay of the journal,
  its block allocation tables, its directory, and its background flusher;
* what the rest of the library is scheduled by: *timers* and *critical sections*.

Line numbers below are of `src/src/sack/sack.cc` unless another file is named.

## Inventory

| Component | State it keeps | Operations | Interacts with |
|---|---|---|---|
| Rollback journal (17248-17606) | three files inside the volume: header and entries, images of blocks, images of small blocks; `pJournaled`, `pdlPendingRecord` | `record_rollback`, `empty_rollback`, `process_rollback` | called by every smudge and flush; its own files are chained in the BAT it protects |
| Sector cache (16547, 17815-18169) | slots with segment, age, lock count, current and clean image, two change flags | seek to a segment, smudge, claim a slot | writes and reads the volume's file; a smudge records in the journal |
| Block allocation table (17618-17814, 18171-18240, 18308-18627) | BAT blocks, `pdlFreeBlocks`, `lastBatBlock`, `dwSize` | get a free block, next block of a chain, expand, shrink | cache |
| Directory and files (19000-20722) | directory blocks by leading characters, name blocks, `vol->files`, open files with their block chains | open, read, write, truncate, unlink, close, find | block table, cache, `vol->lock` |
| Flusher and lock (17080-17091, 18753-18851) | `vol->lock`, `dirty`, `_dirty`, `flushing`, `l.exited` | polish, flusher thread, flush, exit handlers | clients wake it; it empties the journal |
| Volume life cycle (18852-19017) | `vol->closed`, key, `l.volumes` | load, unload, encrypt, decrypt | all of the above |
| Object storage in JavaScript (`src/src/objStore_module.cc`, `src/apps/object-storage`) | wrapped volume; containers, references, decoded objects | put, get, map, flush | files of the volume; polishes after changing |
| Older VFS in memory and in a file (11870-16151) | BAT and directory, no journal | the same file API | SQLite shim, `vfs_module.cc` |
| Threads, wakeable sleep, timers (36722-39634) | threads, wakeup list, active timers | `WakeThread`, `WakeableSleep`, `AddTimer`, `RescheduleTimer`, `RemoveTimer` | everything that waits |
| Critical sections, memory (42537-46494) | owner, waiter, update flag; heaps | enter, leave | everything that is shared |
| Containers (54244-60823) | lists, queues, sets, trees, texts | per container | used throughout |
| Network, TLS, HTTP, websocket, SSH (62018-64780, 78563-93414) | clients with states and pending buffers; parser states; frames | connect, accept, read, write, close | event threads call back into JavaScript through queues |
| Tasks (23492-26647) and task manager (`src/apps/task-manager`) | processes and their pipes; dependencies and restarts | start, stop, input, output | threads, websocket |
| Parsers (69254-78563), configuration (112892-116240) | stream state | parse | JavaScript values |
| SQL and options (111193-128313) | connections, option tree | query, option get and set | vendored SQLite, ODBC |
| File monitor (50914-54225) | watched directories, delayed changes | event, timer | timers, OS events |
| Random generator, devices, GUI, vendored libraries | | | |

What is hard in them:

* *Journal*: a crash at any write must leave the last checkpoint recoverable.  The
  journal's files grow through the tables they protect, so recording nests into
  itself.  Correct: committed entries always give back the checkpoint, and emptying
  the journal makes a whole new one.
* *Replay*: it may crash and be repeated, it works through six cache slots, and
  what it restores must get to the disk.  Correct: idempotent; restored blocks are
  seen by readers and end up on the disk.
* *Flusher*: it polls the lock, ages flags in two generations and sleeps for ever.
  Correct: mutual exclusion, no lost change, no lost wake, changes are written.
* *Block table*: frees go to lists in memory, some of them into tables that are not
  marked to be written, and a load derives the lists again.  Correct: chains are
  disjoint, no block is both free and used, lists and tables agree.
* *Directory and open files*: blocks split by characters of names, while open files
  point at their entries by block and index.  Correct: a name is found where it is
  listed and has the content it was given last; a lookup ends.
* *Life cycle*: the last close of a volume marked `closed`, made with the lock held,
  flushes and frees it; the flusher is never told.
* *Timers*: one thread empties two mailboxes of one place and lets others insert
  while it is in a callback.  Correct: a timer is in one place, is not forgotten, and is
  not called by a turn of the thread that begins after its removal; calls return.
* *Critical sections*: waiters are a stack through their own frames, may be overtaken
  and wake out of turn.  Correct: mutual exclusion, no waiter lost, no check fails.
* *Network and tasks*: events in any order with closes and callbacks.

`PROJECT.json` lists the components with their status and the hazards by line.

## Modules

| Module | Models | Extends or instantiates |
|---|---|---|
| `AtomicVolume` | what the journal promises: stored contents replaced as a whole by checkpoints | |
| `RollbackJournal` | recording, flushing, evicting, emptying, crash at every write | instantiates `AtomicVolume` |
| `RollbackJournal_proofs` | proofs | `RollbackJournal` |
| `JournalIndex` | the sorted array `pJournaled` | |
| `JournalIndex_proofs` | proofs | `JournalIndex` |
| `RollbackReplay` | loading after a crash, and the use of the volume afterwards | |
| `RollbackReplay_proofs` | proofs | `RollbackReplay` |
| `VolumeFlusher` | lock, polish, flusher thread, flushes, process exit | |
| `VolumeFlusher_proofs` | proofs | `VolumeFlusher` |
| `BlockChains` | what the block tables promise a file: its chain grows at the end and goes from its front | |
| `BlockTable` | tables of both kinds, free lists, markers, write, truncate, delete, flush, reload, crash | instantiates `BlockChains` |
| `BlockTable_proofs` | proofs | `BlockTable` |
| `NamedObjects` | what the directory promises: a call changes one name | |
| `ObjectDirectory` | the tree of directory blocks, its binary search and splits, open files | instantiates `NamedObjects` |
| `ObjectDirectory_proofs` | proofs | `ObjectDirectory` |
| `Timers` | the timer thread, its mailboxes, callbacks, clients that add, remove, reschedule | |
| `Timers_proofs` | proofs | `Timers` |
| `RecursiveLock` | what a critical section promises | |
| `CriticalSection` | enter, try, leave, with the stack of waiters and the 25 ms sleep | instantiates `RecursiveLock` |
| `CriticalSection_proofs` | proofs | `CriticalSection` |
| `MC*` | constants of the instances | the module they name |

The views of the volume meet in the same functions.  `RollbackJournal` takes
one call under `vol->lock` at a time, which `VolumeFlusher!LockIsExclusive` licenses,
and `pJournaled` as a set, which `JournalIndex!IndexIsExact` licenses.
`RollbackReplay` takes a record as one step, which `DataRecoverable` licenses, and
begins where `RollbackJournal` may have stopped.  `BlockTable` takes a flush as one
step, which the journal's `CheckpointIsWorkingState` and `DataRecoverable` license for
crashes in which the replay restores the tables.  `ObjectDirectory` takes the blocks of a file
as its first block, which `BlockTable!ImplementsChains` licenses.  Every call of a locked
section is one step where `VolumeFlusher!LockIsExclusive` licenses it.

### RollbackJournal

One block is one record: a version `v` that clients change and, for the root BAT,
the lengths `j` and `e` of the chains of the journal's own files.  `disk`, `hdrDisk`,
`entDisk`, `jrnlDisk` are what a crash leaves; `buf`, `clean`, `dirty`, `dirty2` are
`usekey_buffer`, `usekey_buffer_clean`, `vol->dirty` and `vol->_dirty`; `hdr`, `ent`
are the journal header's block in its ROLLBACK slot.  An operation locks the volume
(`LockVolume`), changes blocks (`Modify`, which is `vfs_os_smudge_cache` up to the
first seek of the record), and may evict slots; the record runs through `SeekEntry`,
`SeekCopy`, `WriteCopy`, `WriteEntry`, `WriteHeader`, one action for each write of
the file, because the program may stop at each.  A crash is not an action: the
invariants are about what is on the disk in every state.  `Replayed` is
`vfs_os_process_rollback` as a function of the disk.

`ckpt` is a ghost: the contents of the disk when the journal was last empty.

Left out: encryption (a block is its content), the journal for small blocks, which
runs through the same steps with its own counter, and `halted`.

### JournalIndex

The array as a function, and the search of `vfs_os_record_rollback` with its real
control: no search for a segment at or after the last one, the stop at the first
element, the starting index the insertion takes over, and the insertion's two
directions.  `Diff` cuts the 64-bit difference to an int of `-Half .. Half-1`.
With block numbers further apart than the int (a volume of more than 8 TB) the
comparison is wrong; the run and the theorems assume `Fits`, that they are not.

### RollbackReplay

`rb` is the range of ROLLBACK slots that are not locked for the header, in the order
of their ages, so `Use` is `_os_updateCacheAge_`; `buf`, `clean`, `cached`, `dirty`
are the other ranges, big enough for the blocks of the model.  A load claims a slot
for each entry's block (`ClaimTarget`), then one for the journal block, whose image
it copies (`CopyImage`); data blocks first, then BATs, and then the header is
cleared (`FinishReplay`).  `Crash` may come at any time.  Flushes stop at
`BC(ROLLBACK)`, so a restored block is written only when its slot is claimed.
`restored` is a ghost: entries this load has restored whose block has not changed.

### VolumeFlusher

`lock`, `dirty`, `dirty2`, `flushing`, `exited` are the variables of the code;
`token` is the semaphore of the flusher's thread: a wake before the sleep is kept, and
several count as one (`pthread_mutex_unlock`, or `SetEvent`).
A client acquires the lock, changes or evicts slots, releases it, may do so again
(a JavaScript write is truncate, write and close), and polishes: it reads
`vol->flushing` without the lock (`Polish`) and wakes the flusher (`Wake`) in
another step.  Clients in `Silent` do not polish: `createIndex` and `setTime` of
`objStore_module.cc`.  The flusher has one action for each access to shared state,
since nothing orders `flushing = 0`, `lock = 0` and the sleep against the clients.
`Exit` is `flushVolumes`, which runs when JavaScript calls have returned.
`owed` is a ghost: changes by clients that polish which are not written yet.

### BlockTable

`bat` is the tables' entries as the cache has them, `disk` what the last flush wrote,
`dirty` the tables that are marked.  `TakeFreed`, `TakeMarked` and
`TakeLastOfTable` are the three branches of `_os_GetFreeBlock_`, the last of which
makes a new table behind the last one of either kind.  An object-store write is
three locked sections, so `Flush` may come between `ShrinkBlock` and `WriteBlock`.
`_os_shrinkBAT` does not mark the tables it frees in: the disk keeps those blocks in
use, and after a reload nobody owns them.  They leak, which the model shows and no
property forbids; what is checked is that nothing a file owns becomes free that way.
`_os_shrinkBAT` chooses one of the two lists by `vol->sector_size[data_cache]` (20191-20194).
That is the size of the freed block itself: `VFS_OS_PARANOID_TRUNCATE` is defined (16177, in the same
file), so the block is read to be cleared (20186-20187), and the read leaves in `data_cache` the slot it
is in, with the size of its table (17640).  An unlink reads each block in the same way (20142).
`FreeBlock` therefore takes the kind of the block's table.  A build without that definition would
choose by whatever block is in the slot `BC(FILE)` (20175), and could put a block in the other list.
`Validate` is the scan of `_os_ValidateBAT`, up to each table's marker, with
`lastBatBlock` as its temporary variable.  `Crash` loads the tables of a partial
flush, derives the lists from them, and only then restores the tables.
`owner` is a ghost.

Left out: the order of the free lists (any of their blocks may be taken), the
slots of the cache (16 hold tables; the instances have four), how many bytes are left to write
(they decide the sizes asked for: large blocks come before small ones), the growth of the
directory, which takes its blocks from the same lists, and the journal's own files.

### ObjectDirectory

`entries` and `next` are the blocks of the directory; `Find` is
`_os_ScanDirectory`, which follows `next` by the characters of the name (`Down`) and
searches the block it ends in (`Narrow`, one round of the loop).  `StartCreate`, then `Convert` as
often as the block is full, then `Create` are `_os_GetNewDirectory`; the number of directory
blocks is bounded (`DirBlocks`), and with none left a split does not happen.  `Read` opens a file and leaves it open while the
callback makes other calls; `EndRead` closes it, which for an unlinked file frees its blocks
and deletes the entry its pointer shows.  Pointers are not moved when entries are, so
the model takes two assumptions about callers: `PrefixFree` (below), and
`Careful`: a callback that removes the name being read does so as the last call before it returns, and
only if no entry has moved.  Without the second the run `directory_lookupsend` finds
a lookup that never ends.

The model closes every read.  `fileReadJSOX` does not when its callback throws: it returns
without closing the file (`src/src/objStore_module.cc:1372-1376`), and that path is left out.

Left out: how names are stored in name blocks, the positions and lengths of
contents, segment locks, and users of the file API other than the object store (the SQLite
shim keeps files open between calls).  A block that has become empty and is asked for its
last entry once more (`used_names` below zero) is reached only without `Careful`.

### Timers

`pool` are the allocated timers, `list` is the list by due time, `add` and `del` the two
mailboxes, `change` is `cs_timer_change`, `away` and `inserting` the handshake
`away_in_timer` and `insert_while_away`, `token` the thread's wake.  The thread goes through
`Top`, `TakeAdd`, `TakeDel`, `Grab`, `Call`, the callback's own calls, `CallbackReturn`,
`EndCall`, `PutBack`.  Time is left out: any timer of the list may be due.  `passed` are those that
have been called since the thread last looked at the time (38556) and put back by their
frequency, which makes them due later.  A timer that is rescheduled leaves `passed`: with a
delay of 0 it gets a place at the thread's own time (38935, 38275) and the loop (38569-38570) calls
it again in the same turn, before the mailboxes are looked at (38546), as often as that happens.
The ghosts for removals are `gone`, timers for which a client's `RemoveTimer` has returned;
`settled`, those that were gone when the thread began its turn; and `late`, the calls of a gone
timer since it was last rescheduled.  `fault` is
what `DoRemoveTimer` does with a timer that is not in the list: it follows the null
pointer `me` (38375), after which the behaviour says nothing more.

### CriticalSection

The portable code, not the native sections of Windows.  `dwUpdating` is who has exchanged it; the owner is read (`Look`) and the decision
made in separate steps, since what protects them is only `dwUpdating`.  `prior` is the local variable
of each `EnterCriticalSecEx`.  `found` is what a thread has read and not given up.
`OpenSpace` are threads that take every answer but 0 of `EnterCriticalSecNoWait`
for success, as `OpenSpaceExx` does.  Leaving with and without a wake
(`LeaveCriticalSecNoWakeEx`) are both alternatives of `Release`.

## Runs

| Run | Checks | Instance |
|---|---|---|
| `journal` | `DataRecoverable`, `ReplayRestoresData`, `CopyReachable`, `UnwrittenIsFlagged`, `CheckpointIsWorkingState`, `ImplementsVolume`, types | two data blocks, root BAT and one more BAT; header block with two entries |
| `journal_index` | `SortedSet`, `IndexIsExact`, `SearchEnds`, types | six segments: every array that can be built of them, every search |
| `replay` | `RestoredIsKept`, `ReplayIsIdempotent`, types | three data blocks and a BAT through two slots |
| `flusher` | `LockIsExclusive`, `NoLostWake`, `OwedIsFlagged`, `ExitLeavesNothing`, `ChangesAreWritten`, types | two polishing clients, one silent, two slots; the process may exit |
| `block_table` | `ChainsAreSeparate`, `AllocatorMatchesTables`, `OwnedIsUsed`, `OwnedIsReachable`, `ImplementsChains`, types | two files of up to two blocks, four tables of five entries |
| `directory` | `LookupIsExact`, `ImplementsStore`, types | five names of one to three characters, two entries in a block, three data blocks |
| `timers` | `OnePlace`, `NoLostInsert`, `RemovalIsFinal`, `CallsReturn`, `AddIsTaken`, types | two clients of which one adds, three timers of which one is periodic |
| `critical_section` | `WaitersAreStacked`, `NeverBreaks`, `EntersReturn`, `ImplementsLock`, types | four threads, two sections deep |
| `block_table_crash`, `timers_lostinsert`, `critical_section_openspace`, `directory_lookupsend` | one property each, violated: see below | |

Bounds.  *journal*: `MaxVersion = 5` allows four changes: enough for two blocks to be changed,
flushed and changed again.  `MaxEntry = 5` against `HeaderEntries = 2` (252 in the
code) lets entries overflow the header's block with a nested BAT record.
*replay*: `Slots = 2` (five in the code, besides the header's, which is touched before every
other use and so never the oldest) makes each entry of a replay displace an earlier one;
more slots only delay that.  `MaxChanges = 2` lets a block be changed before and after a
flush of a reloaded volume.  *flusher*: `MaxOps = 4` locked sections allow each client to act
while the flusher is in each of its places, twice for one of them.
*block_table*: `PerBat = 5` is the least that holds the four blocks of a new volume and a
marker, so the first file of large blocks fills its table; four tables let both kinds
get a second one.  `MaxOps = 4` writes and deletes allow a block to be freed unmarked, lost or
found by a reload, taken again by the other file and freed again.
*directory*: `Capacity = 2` (63 in the code) lets five names split
blocks twice, one split inside the other; one of the names ends at the character that leads to
its block, so its rest becomes empty.  `MaxOpen = 2` allows a name to be read in the callback
of its own read, and six calls suffice for two splits or for a split with a removal in a callback.
*timers*: three timers are one in each of mailbox, list and callback; four calls are a
second removal while the first waits, beside a callback that adds.
*critical_section*: with four threads one is inside and three wait, so that a waiter in the
middle of the stack wakes out of turn; `MaxEnters = 4` calls are one for each thread, or two for a
thread that enters twice; the proofs need no bound.
Interchangeable blocks, files and contents are symmetric and so declared, in runs without
liveness properties (`ImplementsChains` and `ImplementsStore` are safety).

Fairness.  `VolumeFlusher` assumes weak fairness of each client inside a call
(a call returns), of the flusher (a thread that is not blocked runs; its timed
sleeps end) and of the exit handlers.  No client has to begin a call, and no thread
has to win the lock against others: `ChangesAreWritten` holds because clients leave
the volume alone at some time (`MaxOps`), which is what "idle flush" means.  With writers
that never pause the code has no bound on the delay.  `JournalIndex` assumes that
the loop of a call goes on.  `Timers` assumes weak fairness of the timer thread and of
each client inside a call; clients compete for `cs_timer_change` only as often as they call.
`CriticalSection` assumes weak fairness of a thread that is inside a call or has to leave, and
strong fairness of `Exchange`: `dwUpdating` is held for a few instructions, so a thread that tries
again and again gets it.  It does not assume that the section is handed over in order, and the code
does not: the last waiter goes first and newcomers overtake, so under endless newcomers
the first waiter may starve.  `EntersReturn` is about finitely many calls (`MaxEnters`).
The other modules state safety only.

Deadlock is checked where the model never has to stop (`block_table`, `journal`,
`replay`, `journal_index`).  In the others calls are counted, and with none left everything rests,
as it does in the code.

### Where the code and its comments part

Each of these four runs shows that a statement in the repository does not hold of the code.

* `block_table_crash` (`ChainsAreSeparate`) - "reads the rollback journal and reverts
  anything" (17469).  The free lists and the place of the next block are derived (18206-18233)
  before the journal restores the tables (18267): a block of a restored file is handed
  out again.
* `timers_lostinsert` (`NoLostInsert`) - "allow timers to be added while away in this
  timer's callback... so wait for it to finish." (38643).  `insert_while_away` is one flag
  for all threads: one that is done resets it for one that is not, the timer thread goes to
  sleep without end, and the second timer is never called.  The passing run has one
  thread that adds timers, and with one the property holds.
* `critical_section_openspace` (`SingleThread`) - "If it enters the return is 1, else the
  return is 0" (5899).  The third answer, -1, ends the loop of `OpenSpaceExx` (43662)
  without the section.
* `directory_lookupsend` (`LookupsEnd`) - "if file is deleted; don't check it's name"
  (19201).  The binary search looks at the same entry again (19202-19204), for ever, with the volume
  locked, if the callback of a read removes the name being read and then looks up another.

The modules state six more that do not hold of the code and that no configuration lists; each is
found violated at once when its name is added to the module's configuration.

* `RollbackJournal!BatsRecoverable` - also 17469.  While the root BAT is being recorded the
  journal file may have to grow, which flushes the BAT and replaces its clean image
  (18747); the image then journaled is the changed one.
* `RollbackJournal!EntriesReachable` - `CHANGELOG.md:218` on committing file changes to
  BATs involved with the journal.  The block for overflowing entries is chained without
  flushing the BAT (17399-17401), yet the entries are committed.
* `RollbackReplay!RestoredOnDisk`, `BatsAreKept` - "after processing, the disk should be
  back to 0; so don't rollback NEXT reload again" (17603).  The header is cleared on
  the disk while restored data waits in ROLLBACK slots; restored BATs are not even marked.
* `RollbackReplay!RunningSeesRestored` - "need to handle rollback before directory loading
  otherwise they will cache sectors that are duplicated here" (18242).  A block read
  after the replay comes from the disk, although its restored image waits in a ROLLBACK slot.
* `VolumeFlusher!ExitCompletes` - "have lock, break; no new changes; flush dirty sectors(if
  any)" (18802).  If the process begins to exit just then, the flusher ends with the
  lock held (18812) and the exit handler spins on it.

Met while modelling, and left out of the models or excluded by a named assumption:

* a name that begins another is taken for it (17684; `PrefixFree`);
* unlinking marks every open file whose `_first_block` is the same, and all files that were
  empty when opened have `DIR_ALLOCATING_MARK` there (20120);
* a lookup that finds the entry of an unlinked open file has 0, the directory's own block, for its
  first block;
* a removal of a timer that is still in the mailbox, by a callback, follows a null
  pointer (38375; `fault` in `Timers`);
* "The next time this timer would run, it will be removed" (6954, at `RemoveTimer`) holds of the
  turns of the timer thread that begin afterwards (`RemovalIsFinal`); the turn in progress calls the
  timer again as often as its callback reschedules it with a delay of 0 within the same millisecond;
* if a timer that has fired is removed while the thread sleeps without any timer, the thread wakes
  up, finds neither a timer nor one to be added, and sleeps again without taking the removal (38513-38519).  A
  second removal then waits for ever for the mailbox with `cs_timer_change` in its hands (38868), so
  that no other thread can add a timer.  `CallsReturn` leaves this state out: it speaks of calls
  that begin or go on while there are timers;
* a JSOX read whose callback throws leaves its file open (`src/src/objStore_module.cc:1372-1376`):
  removing that name then leaves an entry without a first block that no close deletes, like
  the one in `directory_lookupsend`.

`ReplayRestoresData` has a precondition, `PlainJournal`, for what the replay assumes
of the journal: it counts a journal block for each BAT entry even if the BAT was
recorded as zero (17513 against 17420), and it can read entries past the header's
block only if their chain was written.

## Proofs

The theorems hold for every value of the constants, under the named assumptions of
the modules, and need no fairness.

**RollbackJournal_proofs.**  `Typing`, `WriteAhead` (`DataRecoverable`), `NothingForgotten`
(`UnwrittenIsFlagged`), `CheckpointsAreWhole` and `Refinement` (`ImplementsVolume`),
from one inductive invariant `IInv`.  `DataRecoverable` is not inductive: it says
nothing of the entries that are cached but not yet counted.  `IInv` adds the shape of the pending
list (at most the block that was asked for and the root BAT, and only in the places
where recording can nest), that the counters leave room, what each cached entry
stands for (`CachedEntries`), how the entries on the disk relate to the cached ones at
each step of a record (`DiskEntries`), and that a block whose disk or clean image has
left the checkpoint is journaled or being recorded (`BlockState`).  The refinement
maps `stored` to what the committed images give back and `working` to the cache; a
write of the disk is then a stutter, `Modify` is `Change`, and `EmptyRollback` is
`Checkpoint`.  Two further invariants stand on the typing alone.  `JournalChain` relates the
length of the journal's chain in memory to the entry of the root BAT on the disk:
the BAT is written in the step that lengthens the chain, before a copy goes to the new
block, so no copy is beyond what a load can reach (`CopiesAreReachable`).
`CountedCopies` says that an entry's journal block is the number of copies recorded
before it, the record in progress included; the replay, which keeps its own count, then
seeks the copy that was made for the entry, and with `DataRecoverable` gives back the
checkpoint (`ReplayIsExact`).

**JournalIndex_proofs.**  `IndexTyping`, `StaysSorted`, `SearchIsMembership` and
`InsertionInBounds`, under `Fits`.  The invariant says that everything before the
search window is smaller than the segment, everything after it is greater, and
`cur` is inside the window or next to it; the lemma `PlaceSplits` derives the place of
the insertion from it, wherever the search ended.

**RollbackReplay_proofs.**  `ReplayTyping`, `RestoredStaysKept` (`RestoredIsKept`) and `Idempotence`
(`ReplayIsIdempotent`), for at least two slots, a finite set of blocks, and blocks that are not numbers
(journal blocks are).  `RestoredIsKept` is not inductive: that a slot is written when it is claimed
depends on its mark, and that the write does no harm on what the slot holds.  `IInv` says which slots may
be marked, and with which images (`MarkedSlots`), that a block has one entry (`OneEntry`), that the
claimed slot is the newest until the image is in it (`PlaceInLog`), and that a restored block has its
entry and is not dirty elsewhere (`RestoredEntries`).  The lemmas `NewestSlots`, `UseFacts` and
`PutFacts` say what the claim of a slot and the copy into it do to the sequence of slots;
`StepKeepsTarget` compares what a load would give a block before and after a step.

**VolumeFlusher_proofs.**  `FlusherTyping`, `MutualExclusion`, `NoWakeIsLost`, `NoFlagIsLost`,
`ExitFlushesAll`.  The conjunction of these with `PassIsStable` (while the flusher
holds the lock nothing is smudged, and after its flush nothing is flagged) and
`ExitIsLast` is inductive.  `NoLostWake` needs both: the flusher falls asleep with
nothing owed, because it reset `flushing` while it still held the lock, so a client that
changes something later finds `flushing` reset and wakes it.

**BlockTable_proofs.**  `TableTyping`, `ChainsStaySeparate`, `OwnedBlocksAreUsed` and
`AllocatorIsScan` (`AllocatorMatchesTables`), for any files, number and size of tables, without crashes.
`ChainsAreSeparate` is not inductive: whether a block that is handed out is in a chain depends on the
lists and markers, and these depend, through a reload, on the disk.  `IInv` says where
markers are (`MarkersAreLast`: at most one in the tables of a kind, in its last table,
with nothing behind it), that tables have no gap (`NewTablesAreFree`), what
the lists hold (`FreeIsListed`, without a scan), how tables that are not marked may differ from the
disk (`UnmarkedIsOnDisk`: only where a truncate has freed), and where an operation is
(`StepIsSane`).  The lemma `Scan` derives what `_os_ValidateBAT` finds from the first three;
with it a reload re-establishes the lists, and `AllocatorIsScan` follows.

The second half of the module is about chains.  A reader walks from block to block, so `Walk` is a
recursive function of the number of steps; the lemma `WalkEquation` shows that it satisfies its
recursion (by approximations, as for any recursive function over the numbers), and
`ChainIsRead` that a walk of as many steps as there are blocks returns the whole of a
chain without repetitions.  `FilesAreChains` says that for each file some sequence of distinct
blocks is a chain from its head, that its members are what the file owns, and that it ends at `cur` while
the file is written.  It is kept because a written block is linked behind the last one (`WriteExtends`),
a freed one was the first (`FreeDrops`), and nobody else's entries change (`OthersKeep`); across a
reload it holds because the entries of blocks in use are the same on the disk.  From it follow
`NothingIsLost` (`OwnedIsReachable`) and, step by step, `AllocatorImplements` (`ImplementsChains`).

**Timers_proofs.**  `TimersTyping`, `TimersInOnePlace` (`OnePlace`) and `RemovalsAreFinal`
(`RemovalIsFinal`) for any clients, timers and number of calls, and `InsertIsNotLost` (`NoLostInsert`) for
at most one client in `Inserters`.  `OnePlace` needs that the thread has a timer in its hands exactly
between taking it off the list and putting it back (`ThreadPlace`), and that a client in a call works on a
timer (`ClientPlace`).  `RemovalIsFinal` needs `Removals`: a posted removal stays in the mailbox until the thread
takes it, which frees the timer if it is in the list, so that of the settled timers none is left in
the list when the thread begins to call; and a timer that was called late is not called again in the turn unless it was
rescheduled since.  `NoLostInsert` needs `Handshake`: while a client inserts, its flag is set and the thread is in a
callback or waits after it.  The flag is one for all clients, so `Handshake` fails with two, as
`timers_lostinsert` shows.

**CriticalSection_proofs.**  `SectionTyping`, `CountIsHeld` (`HeldIsCounted`), `StackOfWaiters`,
`DebugBreaksAreUnreachable` and `SectionImplementsLock`, for any finite set of threads, under
`OpenSpace = {}`: callers that take only 1 for success.  The invariant adds that what was read under
`dwUpdating` is still true (`FoundIsTrue`) and that a thread that waits is not inside
(`WaitersAreOutside`).  `Push` and `Pop` show that a thread that begins to wait extends the stack and the
one whose turn it is takes itself off; the other steps leave it alone (`StackStays`).

**ObjectDirectory_proofs.**  `TypesHold` (`TypeOK`) and `StructureHolds` for any callers, and for
careful ones (`Careful`) `RemovedIsShown`, `LookupsAreExact` (`LookupIsExact`) and
`DirectoryImplements` (`ImplementsStore`); for any names of which none begins another one, any capacity of
at least two and any number of directory blocks.  `LookupIsExact` is not inductive: whether the search
finds a name depends on the order of the entries and on which block the name leads to.
`Structure` is: `Tree` (every made block but the root has one parent, made before it, and one
character), `Filed` (an entry is in the block that its name leads to), `InOrder` (the entries of a block
are sorted by the comparison the search uses) and `NewIsNew` (a name that is being created has no
entry).  The order of names is `Below`, which is transitive and total where none begins another one
(`NamesDiffer`); the lemma behind the search says that its window always holds the place of the name
and that as many rounds as there are entries end it.  A walk down is a recursive function of the
number of steps, as in `BlockTable_proofs`; the walk of a name whose block is split goes on to the
new block exactly if the name's entry was moved there.  That a split moves every entry with its
character is where sortedness is needed: the names with it are one run.  An overwrite changes no
name, a removal leaves a part of the entries in their order (`Thinner`), and `Structure` survives both.

Contents need more than places.  `Files` is the set of names with their first blocks, wherever the entries
are, and the effect of each call is stated on it (`FilesChanged`, `FilesAdded`,
`FilesDropped`, `FilesConverted`).  `Cared` says that a first block is in use and of one
file, so that no write reaches another name's block, and that the only entry without one
is that of a removed open file, at the place all its open files point at, so that the last close drops that
entry and no other.  The second part needs `Careful`: without it the pointer may show another
entry, and a search need not end (`directory_lookupsend`).  `StoredIs` computes `Stored` from
`Files`, and each call is then a step of `NamedObjects` or a stutter.

Induction.  The induction theorems of the library take the predicate as an operator,
which the provers cannot instantiate.  Where a proof needs induction over the numbers it
uses the lemma `Induction`, of sets instead of predicates: a set that holds 0 and with n also n + 1
holds every number.  It follows from `FS_StrictSubsetOrderingWellFounded` and
`WFMin` of the library, applied to the intervals 0 .. n.

Only model-checked: the liveness properties (liveness under fairness is out of the
prover's reach).  No module declares a RECURSIVE operator: recursion is by recursive
functions, and the sequences of `RollbackReplay` and `ObjectDirectory` use the operators of the
community modules.

## Plan

In this order:

1. `VolumeLifecycle`: load, last close of a closed volume, unload against the flusher's
   thread, lock hand-over of decrypt and encrypt.
2. `LinkQueue`, and the wakes of `WakeThread` under `CriticalSection`.
3. The journal's own files as chains of `BlockTable`.
4. Then network clients and the close handshake, websocket frames, the task manager,
   and the object cache of `src/apps/object-storage`.

## What is not modelled

Parsers, text, SQL, TLS and SSH protocols, devices and the GUI are pure
transformations, third-party code or thin adapters of the operating system, where a
state model says little; `PROJECT.json` gives the reason for each.  Within the volume
a block, and the content of a file, is the unit: bytes are not looked into.
Torn writes of one block and reordering of writes by the operating system are not
modelled: the code calls neither `fsync` nor a barrier, so the models speak of a crash of
the program rather than of the machine.
