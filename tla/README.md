# redb in TLA+

redb is an embedded key-value store: one process, one file, copy-on-write
B+trees, one writer at a time, any number of readers, crash-safe commits. This
directory holds TLA+ modules translated from its source (`src/src/`), the TLC
configurations that check them on small instances, and theorems that TLAPS
proves for every instance. `PROJECT.json` maps each definition to the lines it
models. Names of operators and variables are the names of the source where the
source has one.

1. [The system](#the-system): inventory of components
2. [The modules](#the-modules): how state and actions correspond to the code
3. [The runs](#the-runs): what TLC checks, bounds, fairness
4. [Disagreements with the documentation](#disagreements-with-the-documentation)
5. [The proofs](#the-proofs)
6. [What is left out](#what-is-left-out) and [the plan](#plan)

## The system

| Component | State | Operations that change it | What makes it correct |
|---|---|---|---|
| **Transaction tracker** `transaction_tracker.rs` | reference counts per transaction, live writer, next ids, valid and persistent savepoints, pending non-durable commits | `start/end_write_transaction`, `register/deallocate_read_transaction`, `register_non_durable_commit`, `clear_pending_non_durable_commits`, savepoint methods | counts are exactly the references that exist; one writer; waiting writers are served |
| **Write transactions** `transactions.rs` | trees under construction, freed and allocated page lists, savepoints created, deleted, invalidated | updates, `ephemeral_savepoint`, `persistent_savepoint`, `restore_savepoint`, `commit`, `abort` | commit and abort leave allocator, tables and tracker in agreement |
| **Page reclamation** `transactions.rs`, `page_manager.rs` | `DATA_FREED_TABLE`, `SYSTEM_FREED_TABLE`, `DATA_ALLOCATED_TABLE`, `unpersisted`, `unpersisted_allocations` | `process_freed_pages`, `process_freed_pages_nondurable`, `process_data_freed_pages_after_commit`, `flush_data_allocated_pages` | no page in use is freed; no page leaks; none is freed twice |
| **Commit protocol and header** `page_manager.rs`, `header.rs` | two commit slots, the god byte (primary, recovery required, two-phase), header in memory, `read_from_secondary` | `commit`, `non_durable_commit`, `close`, `begin_writable` | commits are atomic and durable across crashes |
| **Opening and repair** `db.rs`, `page_manager.rs` | header read from the file, rebuilt allocator | `select_primary_slot`, `do_repair`, allocator-state load, repair commit, savepoint re-registration | every open succeeds, and a repair may be interrupted and repeated |
| **Read transactions** `db.rs`, `transactions.rs` | guard, captured root | `begin_read` (two critical sections), drop | every page of the captured root stays allocated |
| **Savepoints** `savepoint.rs` | handle or table row, validity, pinned transaction | create, restore, delete, drop (two critical sections) | a valid savepoint can be restored |
| **Maintenance** `db.rs` | as above | `check_integrity`, `compact`, `Drop for Database` | nothing is lost; a compaction is invisible to readers |
| **Layout and file growth** `layout.rs`, `page_manager.rs` | regions, trailing pages, file length | `grow`, `try_shrink`, recalculation on open | layout and length agree after any crash |
| **Region and buddy allocators** `region.rs`, `buddy_allocator.rs`, `bitmap.rs` | bitmaps per order, region tracker | `alloc`, `free`, `record_alloc`, `resize` | no overlap; the tracker never hides free space |
| **Cached file** `cached_file.rs`, `lru_cache.rs` | write buffer, read cache, budgets | read, write, evict, flush, invalidate | a read returns the last write |
| **B-tree mutation** `btree_mutator.rs`, `btree_base.rs`, `btree.rs` | pages of a tree | insert, delete, split, merge | the tree is the map it stands for, and balanced |
| **B-tree cursors** `btree_cursor*.rs`, `btree_iters.rs`, `extract_if.rs` | position at both ends | `next`, `next_back`, extraction | every entry once, in order |
| **Tables** `table.rs`, `table_tree*.rs` | open tables, pending root updates | open, close, rename, delete | no table is open twice; roots reach the master tree |
| **Multimaps** `multimap_table.rs`, `multimap_btree.rs` | inline collection or subtree per key | insert, remove, range | the multimap it stands for |

Key and value encodings (`types.rs`, `tuple_types.rs`, ...), hashing (`xxh3.rs`),
storage backends and error types hold no state of their own.

**How they interact.** A write transaction gets its id from the tracker, builds
new pages through the page manager and, at commit, asks the tracker for the
oldest transaction in use (the *horizon*), frees what was listed before it,
writes slot and god byte through the commit protocol, tells the tracker, and
runs an *epilogue*: a small non-durable commit that frees what the commit itself
made obsolete. Readers and savepoints appear to writers only as reference
counts in the tracker. An open reads the header, loads or rebuilds the
allocator, and registers the persistent savepoints again.

**What is hard.** The tracker's mutex, the header's mutex and the allocator's
mutex are taken separately, so several methods (`begin_read`,
`allocate_savepoint`, `deallocate_savepoint`, the epilogue) are more than one
critical section. Savepoints are dropped by any thread, also during a commit.
A one-phase commit has pages, slot and god byte in flight at once. Recovery
itself writes the header and may crash. Non-durable commits reuse pages of
earlier non-durable commits, and must never touch the durable state under them.
`PROJECT.json` lists these hazards line by line, with the properties that cover
each one.

## The modules

```
TransactionTracker          the State record and its methods, as operators
  |- TrackerClients         threads sharing a tracker: one action per lock section
  |    |- MCTrackerClients
  |    `- TrackerPhaseProofs - TrackerSavepointProofs - TrackerClientsProofs
  `- Reclamation            pages, freed lists, savepoints, commits, crash
       `- MCReclamation
CommitProtocol              slots, god byte, fsync, crash, recovery
  |- DurableStore           (INSTANCE) the promise, without file or header
  `- MCCommitProtocol
```

**TransactionTracker** has no variables. `State` is the struct of that name and
each operator is the body of one method, that is one critical section. The map
of reference counts is total, absent keys having count 0; where the code has
`get_mut(..).unwrap()` and subtracts, the model subtracts, and the type
invariant says that the result is never negative.

**TrackerClients** adds the threads. `wpc` is the program counter of each writer
from the condition-variable loop (`Wait`, `SpuriousWakeup`, `StartWrite`) through
`commit_inner` (`MemCommit`, `ClearPending`, `ReleaseInvalidate`,
`ReleaseReference`, `ApplyInvalidated`, `EpiloguePublish`, `EpilogueReserve`,
`EpilogueRegister`) or `abort_inner` (`Abort`, `AbortDone`) to the guard's drop
(`EndWrite`, with `notify_one`). `txn` is `SavepointTransactionState` plus the
savepoint under construction. `Reopen` is a crash or close followed by
`Database::new`. `latest` and `durable` are what `TransactionalMemory` reports as
last committed and last durable id. Pages are left out, so whether the epilogue
has anything to free, and whether a commit has unprocessed freed pages, are
nondeterministic.

**Reclamation** uses the same tracker operators and adds pages. A tree is the
set of its pages, the freed and allocated tables are sets of
`<<transaction id, page>>`, and the system tree is one page that every commit
rewrites. `latest` and `durable` are the two roots with all that hangs from them.
A durable commit is the sequence `StartCommit`, `process_freed_pages`,
`flush_data_allocated_pages`, `DurableCommit`, `CommitCleanup`, `EpilogueFree`,
`EpiloguePublish`, `EpilogueRegister`; a non-durable one `StartCommit`,
`process_freed_pages_nondurable`, `NonDurableCommit`, `NonDurableRegister`. The
steps are cut where another thread can observe or change something: readers,
dropped savepoints and crashes interleave at each cut. `begin_read` and
`CaptureRoot` are the two critical sections of `Database::begin_read`. Freeing
and allocating are never one step, so a page freed too early is seen missing
from `allocated` before it is handed out again. `spent` counts write
transactions and crashes for the bounds `MaxWrites` and `MaxCrash`; nothing else
reads it.

**CommitProtocol** models the disk as `file` (what the process reads) and
`media` (for each part of the file, every content that a power failure can
leave). `flush` makes `media` certain; `Crash` picks from it, with torn pages
and torn slots. A tree is one page with a stamp, standing for a Merkle root:
it verifies when the page carries the stamp. Opening is one action per write or
fsync: `Load`, `LoadSync`, `LoadAllocatorState` or `Verify`,
`ClearRecoveryRequired`, `RepairCommit`, `RepairCommitSwap`, `RepairCommitDone`,
`BeginWritable`, `Opened`. Which pages a transaction may write is Reclamation's
business; here the pages of the durable and of the latest root are excluded,
which Reclamation's `CommittedTreesAllocated` justifies.

**DurableStore** is the abstract specification: a store with a visible and a
durable state, in which a crash loses non-durable commits and leaves the last
durable state, or that of the commit under way. `CommitProtocol!CommitsAtomic`
is the refinement: `open` is derived from `pc`, `visible` from the latest slot,
`durable` from the last acknowledged version, `pending` from the commit in
flight.

Operators marked *Faulty variant* are not part of the model. Each is a plausible
mistake in the code that, put in place of the definition after it, makes TLC
refute the property that `PROJECT.json` pairs it with.

## The runs

| Run | Config | Distinct states | Question |
|---|---|---|---|
| `tracker` | MCTrackerClients | 1 269 046 | Are counts, pins and savepoints consistent over every interleaving of lock sections, with aborts, crashes and reopens? |
| `tracker_writers` | MCTrackerLiveness | 154 683 | Do three writers on one condition variable exclude each other, lose no wakeup, and get served? |
| `commit_protocol` | MCCommitProtocol | 458 590 | Are commits of every kind atomic and durable across one crash anywhere, torn pages and torn slots included? |
| `commit_recovery` | MCCommitRecovery | 187 636 | Can recovery be interrupted and repeated? |
| `open_terminates` | MCOpenTerminates | 47 874 | Does every open end with a usable database once crashes cease? |
| `reclaim_readers` | MCReclamationReaders | 211 246 | With durable commits, does a reader keep every page of the root it captured? |
| `reclaim_crash` | MCReclamationCrash | 583 736 | Do two savepoints, allocator snapshots and `DATA_ALLOCATED_TABLE` survive a crash at any step of a durable commit? |
| `reclaim_nondurable` | MCReclamationNonDurable | 307 997 | With non-durable commits, is every page of a correctly registered reader kept, and is `unpersisted` exact? |
| `reclaim_savepoints` | MCReclamationSavepoints | 384 774 | Does any page leak, get freed twice or get lost to another savepoint when up to two are taken, restored, invalidated, deleted and dropped? |

Three further runs are expected to end in a violation; see the next section.

**Bounds.**
- *Tracker.* `MaxTxn = 8` leaves five ids after the three of the first open:
  enough for a durable commit with its epilogue (two ids) before or after
  non-durable commits, and for a reopen with repair. `MaxSavepoint = 2` is enough
  for an older and a newer savepoint, which is what ordering, restoring and
  invalidating tell apart. One writer and one reader suffice for counts, as
  writers exclude each other; `tracker_writers` has three writers so that a
  newcomer, a woken thread and a sleeping thread exist at once, and no
  savepoints. The proofs below remove these bounds.
- *Commit protocol.* Three transactions reach every order of two kinds of commit
  and a third on top; five pages hold the two roots of the durable and of the
  latest commit and one to write. Every user page, system page and kind of commit
  is chosen freely. `MaxSessions` bounds ends of sessions (close, crash, aborted
  repair), so recovery is itself interrupted when it is 2.
- *Torn slots.* With `TearSlots` a crash may leave a slot that mixes fields of
  two writes and fails its checksum. `commit_protocol` has it with one crash.
  `commit_recovery` and `open_terminates` have two interruptions and use slots
  that are corrupt but not mixed, because mixed ones lead to the third
  disagreement below.
- *Reclamation.* Five pages, of which the data tree uses at most one
  (`MaxData`), leave room for pages waiting in the freed tables and for system
  pages of the durable and the latest commit; one update per transaction
  (`MaxOps`) replaces, adds or removes a page. Durable commits, quick-repair
  commits, non-durable commits, readers, savepoints and crashes are combined in
  pairs, one question per run, rather than all at once.
- *Reclamation without savepoints* (`reclaim_readers`, `reclaim_nondurable`,
  `begin_read_race`, all with `MaxSavepoint = 0`). `MaxTxn = 9` gives three
  transactions with an epilogue each, or up to five without; `MaxWrites = 5`
  never binds. What `TypeOK` and `UnpersistedExact` say of savepoints is empty
  there and is checked by the next two runs.
- *Reclamation with savepoints.* `CanSave` keeps one id back for recovery, so
  `MaxSavepoint = 3` means two savepoints: of the same or of different
  transactions, one restored, deleted, dropped or invalidated while the other
  stays. `MaxWrites` bounds the write transactions and `MaxTxn = 11` leaves them
  all the ids they can use, those that recovery skips included.
  `reclaim_crash` has three transactions and a crash after the first commit
  (`CrashAfterCommit`), so transactions also run on recovered savepoints; at most
  one of the two savepoints is ephemeral (`OneEphemeral`), and after a crash that
  finds a savepoint no further one is taken, as recovery restores a higher
  counter. `reclaim_savepoints` has three transactions with two savepoints of any
  kind, four with at most one (`LastWithOneSavepoint`). `savepoint_drop_race`
  needs one savepoint and has `MaxSavepoint = 2`.

Pages are interchangeable, so those runs use symmetry, except `open_terminates`
(symmetry is unsound for liveness).

**Deadlock.** It is checked in the tracker runs, where it says little, as a
reader can always begin or end; writers waiting for ever are the subject of
`NoLostWakeup` and `WaitersServed`. In the other models ids, stamps and crashes
run out, so `CHECK_DEADLOCK FALSE`.

**Fairness.** `tracker_writers` assumes weak fairness of each writer's own steps:
its thread is scheduled, and a user who began a write transaction ends it by
committing (a transaction held for ever blocks other writers by design).
Fairness is per thread, not per outcome: nothing makes the mutex fair, and
newcomers may overtake a woken thread. So `WaitersServed` promises that *some*
writer becomes live, not each one; the code promises no more. `open_terminates`
assumes weak fairness of `Opening`, which runs on the caller's thread and waits
for nobody; sessions are bounded, so crashes cease.

## Disagreements with the documentation

Each is a run in which TLC finds the quoted statement violated by the model of
the code. They are results about the model, obtained by reading and model
checking; none has been reproduced with the compiled library.

1. **`begin_read_race` / `ReadersPinned`.** `docs/design.md:384` says that readers
   "are registered in the database so that no pages that root references are
   freed". `begin_read` registers the latest id in one critical section and reads
   the root in another. If a non-durable commit is published in between, the
   reader has a newer root than it registered, and a later non-durable commit
   may free pages of it. With durable commits only, the property holds
   (`reclaim_readers`): there an older registration protects more, not less.
2. **`savepoint_drop_race` / `LiveTableAllocated`.** `transactions.rs:1707` says
   "DATA_ALLOCATED_TABLE must never name a page that is no longer allocated".
   The table is purged using the savepoints valid at that moment; if the oldest
   is dropped before the epilogue computes its own horizon, the epilogue frees a
   page that the published table names. The durable table stays sound
   (`RepairedTableAllocated`).
3. **`torn_slot` / `CommitsAtomic`.** `docs/design.md:348` says that after a
   partial write "the checksum verification will fail, and it will be rolled
   back". An open that needs recovery writes the header back with fresh checksums
   for both slots, the torn one too. If that recovery is interrupted, the next
   open finds the torn slot valid and may prefer it. It takes a slot torn between
   fields and two interruptions.

## The proofs

`TrackerClientsProofs` proves, for any sets of writers and readers and any
bounds on ids, that every invariant below holds in each reachable state of
`TrackerClients`. The only assumption is `TrackerBounds`: both bounds are natural
numbers and `MaxTxn >= 3`, the ids that the first open takes. `Writers` and
`Readers` need not be finite.

| Theorem | States |
|---|---|
| `Invariance` | `Spec => []IInv` |
| `TypeCorrect` | `TypeOK`: no reference count underflows |
| `ReferencesExact` | `RefCountExact` |
| `SavepointsStayPinned` | `ValidSavepointsPinned` |
| `DurableStaysPinned` | `DurableAncestorPinned` |
| `WritersExclude` | `SingleWriter` |
| `AssertionsNeverFail` | `AssertionsHold` |
| `SavepointsOrdered` | `SavepointOrder` |
| `UserReferencesExact` | `UserReferencesSeen` |
| `WakeupsNotLost` | `NoLostWakeup` |

**The argument.** `RefCountExact` is not inductive. That a decrement removes one
counted reference needs to know that the reference exists and has a single
holder. `IInv` adds what is missing:
- `Phases`: what a writer's program counter says about live, next, latest and
  durable id (hence one writer, and ids that no commit has used);
- `RowPhases`: which savepoint rows the transaction may have created, deleted or
  be releasing in each phase;
- `Rows`: savepoint ids are unique, ordered like the transactions they pin, and
  held once (a handle, a drop under way, or a table row);
- `Newest`: the savepoint under construction is newer than all others;
- `Valid`: a valid savepoint holds a reference, one being released is not valid;
- `Pending`: pending commits pin the last durable transaction until a durable
  commit clears them, and have ids that no live transaction will use again;
- `Counts`: `RefCountExact`, and finitely many readers.

Each part has one lemma (`PhasesStep`, `RowsStep`, ...) with one step per action
or group of actions with the same effect. `TrackerPhaseProofs` defines `IInv`
and proves the parts on types, phases, pending commits and row phases;
`TrackerSavepointProofs` those on savepoints; `TrackerClientsProofs` the count
and the theorems. Lemmas named `...Fields` state what an action does to each
field of `tracker` and `txn`; `WriterKeptStep` and `SavepointsKeptStep` are
frame lemmas. `NoLostWakeup` needs one induction of its own on top of `IInv`.

**Only model-checked.** `WaitersServed` and `OpenTerminates` are liveness under
fairness, which this prover does not handle. `PersistentMatchesTable`, and all
properties of `CommitProtocol` and `Reclamation` (the refinement
`CommitsAtomic` among them) are not proved yet; see the plan.

## What is left out

- I/O errors in the middle of an operation, and the latch that makes a database
  unusable afterwards.
- In Reclamation: page sizes, the chunking of page lists into rows, page
  relocation, the retry loop that saves the allocator state, several pages per
  system tree. A crash there leaves the last durable state; what a crash leaves
  in the file is CommitProtocol's subject.
- In CommitProtocol: the layout fields and the magic number of the header,
  read-only opens, and hash collisions (a torn page never verifies).
- Key and value encodings, hashing, backends, error types: no state, or pure I/O.
- The components without a module in `PROJECT.json`: planned below.

## Plan

Done, most important behaviour first: TransactionTracker, TrackerClients,
CommitProtocol with DurableStore, Reclamation, and the proofs about
TrackerClients. Next, in this order:

| Module | Models | Questions and bounds |
|---|---|---|
| FileLayout | `grow`, `try_shrink`, recalculation on open | composes with CommitProtocol's crash: do layout and length agree after a crash at any step? 2 regions of 4 pages |
| BuddyAllocator, RegionAllocator | bitmaps, orders, region tracker, page numbers | refines a set of free pages; does the tracker hide free space? one region of 8 pages, then 2 regions |
| CachedFile | write buffer, read cache, eviction, budgets | refines an array of pages; 2 readers, a writer, 2 pages |
| Maintenance | `check_integrity`, `compact`, `Drop for Database`, I/O errors | composes TrackerClients and Reclamation: ids reserved by repairs, a live transaction taking a savepoint while `compact` begins, failed commits |
| BtreeMutator | insert, delete, split, merge | refines a map; 5 keys, 2 or 3 per page |
| BtreeRange | two-ended cursors, extraction | every entry once; bounded trees of BtreeMutator |
| TableNamespace | open, close, rename, delete | 2 tables, 2 transactions |
| Multimap | inline collections and subtrees | refines a relation; 2 keys, 3 values |

Abstract specifications worth stating: a set of free pages (allocators), an
array (cache), a map and a relation (trees), a snapshot-isolated store over the
whole (Reclamation with readers).

Theorems worth proving next: `PersistentMatchesTable`; `TwoPhasePrimaryDurable`
and `AcknowledgedStaysIntact` of CommitProtocol, then the steps of its
refinement; `CommittedTreesAllocated` and `UnpersistedExact` of Reclamation; the
allocator's refinement of a set.
