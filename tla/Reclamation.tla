---------------------------- MODULE Reclamation ----------------------------
(***************************************************************************)
(* When a page may be used again.  redb's trees are copy-on-write: a write *)
(* transaction allocates new pages and lists the ones it replaced in       *)
(* DATA_FREED_TABLE or SYSTEM_FREED_TABLE under its id; a later commit     *)
(* frees the lists that no reader, no savepoint and no pending non-durable *)
(* commit can need.  This module follows every page through commit_inner   *)
(* of transactions.rs, durable or not, with the post-commit epilogue,      *)
(* savepoints, aborts, and recovery after a crash.                         *)
(*                                                                         *)
(* A tree is the set of its pages; the system tree, which only writers     *)
(* read, is one page that every commit rewrites.  The freed and allocated  *)
(* tables are sets of <<transaction id, page>>.  Freeing and allocating    *)
(* are never one step, so a page that is freed too early is seen missing   *)
(* from `allocated` before it can be handed out again.                     *)
(***************************************************************************)
EXTENDS TransactionTracker

CONSTANTS Pages,         \* pages of the file
          Readers,       \* threads calling Database::begin_read
          Durabilities,  \* the durabilities that writers choose from
          MaxData,       \* bound on the size of the data tree
          MaxOps,        \* bound on the updates of one transaction
          MaxWrites,     \* bound on write transactions
          MaxCrash       \* bound on crashes

ASSUME ReclamationConstants ==
  /\ IsFiniteSet(Pages) /\ IsFiniteSet(Readers)
  /\ Durabilities \subseteq {"None", "Immediate", "QuickRepair"}
  /\ {MaxData, MaxOps, MaxWrites, MaxCrash} \subseteq Nat

VARIABLES
  tracker,      \* the State of the TransactionTracker
  allocated,    \* pages that the allocator has handed out
  unpersisted,  \* TransactionalMemory::unpersisted
  unpersisted_allocations,  \* the map of the same name, as pairs
  latest,       \* what the last commit published
  durable,      \* what the last durable commit published
  txn,          \* the write transaction
  readers,      \* read transactions
  handles,      \* ephemeral Savepoint objects
  dropping,     \* the ones between the two halves of their Drop
  spent         \* what has been used up of MaxWrites and MaxCrash

vars == <<tracker, allocated, unpersisted, unpersisted_allocations, latest,
          durable, txn, readers, handles, dropping, spent>>

Entry == TransactionId \X Pages
PagesOf(entries) == {e[2] : e \in entries}
Before(entries, id) == {e \in entries : e[1] < id}
After(entries, id) == {e \in entries : e[1] > id}
Under(id, pages) == {<<id, p>> : p \in pages}

Savepoint == [sp : SavepointId, id : TransactionId, data : SUBSET Pages]
Row(s) == <<s.sp, s.id>>

\* Allocator state table: valid if `id` is the transaction it is found in.
NoSnapshot == [id |-> 0, pages |-> {}]

\* The two roots of a commit and what the system tree holds.
Commit ==
  [id : TransactionId, data : SUBSET Pages, system : Pages,
   data_freed : SUBSET Entry, system_freed : SUBSET Entry,
   data_allocated : SUBSET Entry, savepoints : SUBSET Savepoint,
   next_savepoint : Nat, snapshot : [id : TransactionId, pages : SUBSET Pages]]

\* rebuild_allocator_state: both trees and the pages of the freed tables.
Rebuilt(c) ==
  c.data \cup {c.system} \cup PagesOf(c.data_freed) \cup PagesOf(c.system_freed)

EmptyTxn ==
  [pc |-> "idle", durability |-> "Immediate", data |-> {}, data_freed |-> {},
   system_freed |-> {}, data_allocated |-> {}, savepoints |-> {},
   freed |-> {}, fresh |-> {}, ops |-> 0, created |-> {}, deleted |-> {},
   next_savepoint |-> 0, invalidated |-> {}, dirty |-> FALSE, free_until |-> 0,
   extracted |-> {}]

NoRead == [stage |-> "none", id |-> 0, seen |-> 0, data |-> {}]

\* A database that holds nothing but its system tree, just opened.
Init ==
  /\ tracker = new(3)
  /\ \E p \in Pages :
       /\ allocated = {p}
       /\ durable = [id |-> 1, data |-> {}, system |-> p, data_freed |-> {},
                     system_freed |-> {}, data_allocated |-> {}, savepoints |-> {},
                     next_savepoint |-> 0, snapshot |-> NoSnapshot]
  /\ latest = durable
  /\ unpersisted = {}
  /\ unpersisted_allocations = {}
  /\ txn = EmptyTxn
  /\ readers = [r \in Readers |-> NoRead]
  /\ handles = {}
  /\ dropping = {}
  /\ spent = [writes |-> 0, crashes |-> 0]

\* The id of the live write transaction.
transaction_id == tracker.live_write_transaction

-----------------------------------------------------------------------------
(* Inside a write transaction *)

begin_write(durability) ==
  /\ tracker.live_write_transaction = NoTxn
  /\ tracker.next_transaction_id + 2 <= MaxTxn
  /\ spent.writes < MaxWrites
  /\ spent' = [spent EXCEPT !.writes = @ + 1]
  /\ tracker' = start_write_transaction(tracker)
  /\ txn' = [EmptyTxn EXCEPT
               !.pc = "live", !.durability = durability, !.data = latest.data,
               !.data_freed = latest.data_freed,
               !.system_freed = latest.system_freed,
               !.data_allocated = latest.data_allocated,
               !.savepoints = latest.savepoints,
               !.next_savepoint = latest.next_savepoint]
  /\ UNCHANGED <<allocated, unpersisted, unpersisted_allocations, latest,
                 durable, readers, handles, dropping>>

\* An update of the data tree: pages `added` come, pages `removed` go.  A page
\* that this transaction allocated is freed at once (free_if_uncommitted), the
\* others go to the transaction's list of freed pages.
Update(added, removed) ==
  /\ txn.pc = "live"
  /\ txn.ops < MaxOps
  /\ removed \subseteq txn.data
  /\ added \subseteq Pages \ allocated
  /\ Cardinality((txn.data \cup added) \ removed) <= MaxData
  /\ allocated' = (allocated \cup added) \ (removed \cap txn.fresh)
  /\ txn' = [txn EXCEPT !.data = (@ \cup added) \ removed,
                        !.fresh = (@ \cup added) \ removed,
                        !.freed = @ \cup (removed \ txn.fresh),
                        !.ops = @ + 1, !.dirty = TRUE]
  /\ UNCHANGED <<tracker, unpersisted, unpersisted_allocations, latest, durable,
                 readers, handles, dropping, spent>>

\* The savepoint that this transaction would take.
NextSavepoint == [sp |-> tracker.next_savepoint_id + 1, id |-> latest.id,
                  data |-> latest.data]

\* Only a transaction that has opened no table may take a savepoint.  One id is
\* kept back for the counter that recovery restores, which is one more than that
\* of the last savepoint: MaxSavepoint - 1 savepoints can be taken.
CanSave ==
  /\ txn.pc = "live"
  /\ ~txn.dirty
  /\ tracker.next_savepoint_id + 2 <= MaxSavepoint

AllocateSavepoint ==
  allocate_savepoint(register_read_transaction(tracker, latest.id), latest.id)

ephemeral_savepoint ==
  /\ CanSave
  /\ tracker' = AllocateSavepoint
  /\ handles' = handles \cup {NextSavepoint}
  /\ UNCHANGED <<allocated, unpersisted, unpersisted_allocations, latest, durable,
                 txn, readers, dropping, spent>>

persistent_savepoint ==
  /\ CanSave
  /\ txn.durability # "None"
  /\ tracker' = mark_savepoint_persistent(AllocateSavepoint, NextSavepoint.sp)
  /\ txn' = [txn EXCEPT !.savepoints = @ \cup {NextSavepoint},
                        !.next_savepoint = NextSavepoint.sp + 1,
                        !.created = @ \cup {NextSavepoint}]
  /\ UNCHANGED <<allocated, unpersisted, unpersisted_allocations, latest, durable,
                 readers, handles, dropping, spent>>

delete_persistent_savepoint(s) ==
  /\ txn.pc = "live"
  /\ txn.durability # "None"
  /\ s \in txn.savepoints
  /\ txn' = [txn EXCEPT !.savepoints = @ \ {s}, !.deleted = @ \cup {s}]
  /\ UNCHANGED <<tracker, allocated, unpersisted, unpersisted_allocations, latest,
                 durable, readers, handles, dropping, spent>>

\* Faulty variant: pages freed after the savepoint stay listed.
RestoredFreed_Kept(s) == txn.data_freed

\* 1a) of restore_savepoint: purge the lists of later transactions.
RestoredFreed(s) == txn.data_freed \ After(txn.data_freed, s.id)

\* Savepoint objects: ephemeral ones, and those that get_persistent_savepoint
\* returns, which outlive a deletion of their row by this transaction.
Restorable == handles \cup txn.savepoints \cup txn.deleted

\* The old root comes back; freed lists newer than the savepoint are dropped;
\* every page allocated since then is listed as freed; newer savepoints are
\* invalidated, the persistent ones deleted.
restore_savepoint(s) ==
  LET newer == {n \in txn.savepoints : n.sp > s.sp}
      since == After(txn.data_allocated, s.id) \cup After(unpersisted_allocations, s.id)
  IN  /\ txn.pc = "live"
      /\ s \in Restorable
      /\ is_valid_savepoint(tracker, s.sp)
      /\ s.sp \notin txn.invalidated
      /\ txn.durability = "None" => newer = {}
      /\ allocated' = allocated \ txn.fresh
      /\ txn' = [txn EXCEPT
                   !.data = s.data,
                   !.data_freed = RestoredFreed(s),
                   !.fresh = {},
                   !.dirty = TRUE,
                   !.freed = PagesOf(since),
                   !.invalidated = @ \cup list_savepoints_after(tracker, s.sp),
                   !.savepoints = @ \ newer,
                   !.deleted = @ \cup newer]
      /\ UNCHANGED <<tracker, unpersisted, unpersisted_allocations, latest, durable,
                     readers, handles, dropping, spent>>

\* deallocate_savepoint for each of a set of savepoints.
Deallocated(tr, saves) ==
  LET gone == invalidate_savepoints(tr, {s.sp : s \in saves})
  IN  [gone EXCEPT !.live_read_transactions =
         [t \in DOMAIN @ |-> @[t] - Cardinality({s \in saves : s.id = t})]]

\* abort_inner: savepoints taken here are released, pages rolled back.
Abort ==
  /\ txn.pc = "live"
  /\ tracker' = end_write_transaction(Deallocated(tracker, txn.created))
  /\ allocated' = allocated \ txn.fresh
  /\ txn' = EmptyTxn
  /\ UNCHANGED <<unpersisted, unpersisted_allocations, latest, durable, readers,
                 handles, dropping, spent>>

-----------------------------------------------------------------------------
(* commit_inner *)

\* Faulty variant: off by one.
FreeUntil_OffByOne(S, default) == IF S = {} THEN default ELSE OldestOr(S, 0) + 2

\* Faulty variant: the newest transaction in use is taken for the oldest.
FreeUntil_Newest(S, default) ==
  IF S = {} THEN default ELSE 1 + CHOOSE t \in S : \A u \in S : t >= u

\* The oldest transaction in S bounds the lists that may be freed.
FreeUntil(S, default) == IF S = {} THEN default ELSE OldestOr(S, 0) + 1

\* store_data_freed_pages, then the first look at the tracker.
StartCommit ==
  /\ txn.pc = "live"
  /\ txn' = [txn EXCEPT
       !.pc = IF txn.durability = "None" THEN "freeing_nondurable" ELSE "freeing",
       !.data_freed = @ \cup Under(transaction_id, txn.freed),
       !.free_until =
          FreeUntil(IF txn.durability = "None"
                    THEN live_nondurable_transactions(tracker)
                    ELSE live_transactions(tracker), transaction_id)]
  /\ UNCHANGED <<tracker, allocated, unpersisted, unpersisted_allocations, latest,
                 durable, readers, handles, dropping, spent>>

\* durable_commit: process_freed_pages
process_freed_pages ==
  LET data == Before(txn.data_freed, txn.free_until)
      system == Before(txn.system_freed, txn.free_until)
  IN  /\ txn.pc = "freeing"
      /\ allocated' = allocated \ PagesOf(data \cup system)
      /\ txn' = [txn EXCEPT !.pc = "flushing",
                            !.data_freed = @ \ data,
                            !.system_freed = @ \ system]
      /\ tracker' = mark_non_durable_freed_pages_processed(tracker,
                      {e[1] : e \in data \cup system})
      /\ UNCHANGED <<unpersisted, unpersisted_allocations, latest, durable, readers,
                     handles, dropping, spent>>

\* Faulty variant: nothing is purged.
Purged_Nothing(entries) == entries

\* Entries below the oldest savepoint that outlives this transaction are
\* purged, all of them if there is none.
Purged(entries) ==
  entries \ Before(entries, oldest_savepoint_excluding(tracker,
                              {s.sp : s \in txn.deleted}, MaxTxn + 1))

\* Allocations of pending non-durable commits become durable with this one.
flush_data_allocated_pages ==
  /\ txn.pc = "flushing"
  /\ txn' = [txn EXCEPT !.pc = "committing",
       !.data_allocated = Purged(@ \cup unpersisted_allocations
                                   \cup Under(transaction_id, txn.fresh))]
  /\ unpersisted_allocations' = {}
  /\ UNCHANGED <<tracker, allocated, unpersisted, latest, durable, readers,
                 handles, dropping, spent>>

\* Faulty variant: the saved allocator holds a page that no list names.
SystemFreed_Unlisted == txn.system_freed

\* Only a quick-repair commit stores the page that the system tree gave up.
SystemFreed ==
  IF txn.durability = "QuickRepair"
  THEN txn.system_freed \cup {<<transaction_id, latest.system>>}
  ELSE txn.system_freed

\* Faulty variant: only the pages of the new trees count as persisted.
Unpersisted_OfTrees == unpersisted \ (txn.data \cup {latest.system})

\* A durable commit persists every page there is, also those that only a freed
\* list or a savepoint names.
Unpersisted == {}

\* The rest of durable_commit up to and with TransactionalMemory::commit.  A
\* quick-repair commit saves the allocator; otherwise the old system page is
\* freed once the commit is durable.
DurableCommit(system) ==
  LET quick == txn.durability = "QuickRepair"
      c == [id |-> transaction_id, data |-> txn.data, system |-> system,
            data_freed |-> txn.data_freed, system_freed |-> SystemFreed,
            data_allocated |-> txn.data_allocated, savepoints |-> txn.savepoints,
            next_savepoint |-> txn.next_savepoint,
            snapshot |-> IF quick
              THEN [id |-> transaction_id, pages |-> allocated \cup {system}]
              ELSE NoSnapshot]
  IN  /\ txn.pc = "committing"
      /\ system \in Pages \ allocated
      /\ allocated' = allocated \cup {system}
      /\ durable' = c
      /\ latest' = c
      /\ unpersisted' = Unpersisted
      /\ txn' = [txn EXCEPT !.pc = "committed",
                            !.extracted = IF quick THEN {} ELSE {latest.system}]
      /\ UNCHANGED <<tracker, unpersisted_allocations, readers, handles, dropping,
                     spent>>

\* Faulty variant: the references of invalidated savepoints are released as
\* well, which the Drop of those Savepoint objects will do.
Applied_ReleaseInvalidated(tr) ==
  LET gone == {s \in handles : s.sp \in txn.invalidated}
  IN  invalidate_savepoints(Deallocated(tr, txn.deleted \cup gone), txn.invalidated)

\* SavepointTransactionState::apply_on_commit
Applied(tr) ==
  invalidate_savepoints(Deallocated(tr, txn.deleted), txn.invalidated)

\* After TransactionalMemory::commit: pending commits are no longer pending,
\* the old system tree is freed, savepoints are applied, and the epilogue
\* looks at the tracker.
CommitCleanup ==
  /\ txn.pc = "committed"
  /\ tracker' = Applied(clear_pending_non_durable_commits(tracker))
  /\ allocated' = allocated \ txn.extracted
  /\ txn' = [txn EXCEPT !.pc = "epilogue", !.extracted = {},
               !.free_until = FreeUntil(live_transactions(tracker'), transaction_id + 1)]
  /\ UNCHANGED <<unpersisted, unpersisted_allocations, latest, durable, readers,
                 handles, dropping, spent>>

\* process_data_freed_pages_after_commit: free what the commit just made
\* obsolete, or return if there is nothing.
EpilogueFree ==
  LET data == Before(latest.data_freed, txn.free_until)
  IN  /\ txn.pc = "epilogue"
      /\ data # {}
      /\ allocated' = allocated \ PagesOf(data)
      /\ txn' = [txn EXCEPT !.pc = "publishing", !.data_freed = @ \ data,
                            !.extracted = {e[1] : e \in data}]
      /\ UNCHANGED <<tracker, unpersisted, unpersisted_allocations, latest, durable,
                     readers, handles, dropping, spent>>

EpilogueSkip ==
  /\ txn.pc = "epilogue"
  /\ Before(latest.data_freed, txn.free_until) = {}
  /\ tracker' = end_write_transaction(tracker)
  /\ txn' = EmptyTxn
  /\ UNCHANGED <<allocated, unpersisted, unpersisted_allocations, latest, durable,
                 readers, handles, dropping, spent>>

\* Faulty variant: the old system page is forgotten.
EpilogueSystemFreed_Forgotten == latest.system_freed

\* The system page of the durable commit is listed, not freed.
EpilogueSystemFreed ==
  latest.system_freed \cup {<<transaction_id + 1, latest.system>>}

\* The system tree without the freed entries, published as a non-durable
\* commit.
EpiloguePublish(system) ==
  /\ txn.pc = "publishing"
  /\ system \in Pages \ allocated
  /\ allocated' = allocated \cup {system}
  /\ unpersisted' = unpersisted \cup {system}
  /\ latest' = [latest EXCEPT
                  !.id = transaction_id + 1, !.system = system,
                  !.data_freed = txn.data_freed,
                  !.system_freed = EpilogueSystemFreed]
  /\ txn' = [txn EXCEPT !.pc = "published"]
  /\ UNCHANGED <<tracker, unpersisted_allocations, durable, readers, handles,
                 dropping, spent>>

EpilogueRegister ==
  /\ txn.pc = "published"
  /\ tracker' = end_write_transaction(
                  mark_non_durable_freed_pages_processed(
                    register_non_durable_commit(
                      reserve_transaction_id(tracker, latest.id), latest.id,
                      transaction_id, TRUE),
                    txn.extracted))
  /\ txn' = EmptyTxn
  /\ UNCHANGED <<allocated, unpersisted, unpersisted_allocations, latest, durable,
                 readers, handles, dropping, spent>>

-----------------------------------------------------------------------------
(* non_durable_commit *)

\* Entries that process_freed_pages_nondurable looks at: lists of non-durable
\* commits that were not processed yet.
Candidates(entries) ==
  {e \in Before(entries, txn.free_until) :
     e[1] \in tracker.unprocessed_freed_non_durable_commits}

\* Faulty variant: pages of the durable state are freed too.
Reclaimable_All(entries) == entries

\* free_if_unpersisted: only pages that no durable commit refers to are freed.
Reclaimable(entries) == {e \in entries : e[2] \in unpersisted}

process_freed_pages_nondurable ==
  LET seen == Candidates(txn.data_freed) \cup Candidates(txn.system_freed)
      gone == Reclaimable(seen)
  IN  /\ txn.pc = "freeing_nondurable"
      /\ allocated' = allocated \ PagesOf(gone)
      /\ unpersisted' = unpersisted \ PagesOf(gone)
      /\ unpersisted_allocations' =
           {e \in unpersisted_allocations : e[2] \notin PagesOf(gone)}
      /\ txn' = [txn EXCEPT !.pc = "publishing_nondurable",
                            !.data_freed = @ \ gone, !.system_freed = @ \ gone]
      /\ tracker' = mark_non_durable_freed_pages_processed(tracker, {e[1] : e \in seen})
      /\ UNCHANGED <<latest, durable, readers, handles, dropping, spent>>

\* TransactionalMemory::non_durable_commit.  The old system page is listed,
\* or freed after the commit if it is not durable.
NonDurableCommit(system) ==
  LET old == latest.system
      listed == {<<transaction_id, p>> : p \in {old} \ unpersisted}
  IN  /\ txn.pc = "publishing_nondurable"
      /\ system \in Pages \ allocated
      /\ allocated' = allocated \cup {system}
      /\ unpersisted' = unpersisted \cup txn.fresh \cup {system}
      /\ latest' = [latest EXCEPT
                      !.id = transaction_id, !.data = txn.data, !.system = system,
                      !.data_freed = txn.data_freed,
                      !.system_freed = txn.system_freed \cup listed,
                      !.savepoints = txn.savepoints]
      /\ txn' = [txn EXCEPT !.pc = "published_nondurable",
                            !.extracted = {old} \cap unpersisted]
      /\ UNCHANGED <<tracker, unpersisted_allocations, durable, readers, handles,
                     dropping, spent>>

\* record_unpersisted_allocations, register_non_durable_commit, the deferred
\* frees and the savepoints.
NonDurableRegister ==
  LET stored == \/ txn.freed # {}
                \/ \E e \in latest.system_freed : e[1] = transaction_id
  IN  /\ txn.pc = "published_nondurable"
      /\ unpersisted_allocations' =
           unpersisted_allocations \cup Under(transaction_id, txn.fresh)
      /\ tracker' = end_write_transaction(
                      Applied(register_non_durable_commit(tracker, transaction_id,
                                durable.id, stored)))
      /\ allocated' = allocated \ txn.extracted
      /\ unpersisted' = unpersisted \ txn.extracted
      /\ txn' = EmptyTxn
      /\ UNCHANGED <<latest, durable, readers, handles, dropping, spent>>

-----------------------------------------------------------------------------
(* Readers and savepoint handles *)

\* Faulty variant: the reader is not counted.
begin_read_Uncounted(r) ==
  /\ readers[r].stage = "none"
  /\ readers' = [readers EXCEPT ![r] = [NoRead EXCEPT !.stage = "registered",
                                                      !.id = latest.id]]
  /\ UNCHANGED <<tracker, allocated, unpersisted, unpersisted_allocations, latest,
                 durable, txn, handles, dropping, spent>>

\* begin_read registers the id of the latest commit ...
begin_read(r) ==
  /\ readers[r].stage = "none"
  /\ tracker' = register_read_transaction(tracker, latest.id)
  /\ readers' = [readers EXCEPT ![r] = [NoRead EXCEPT !.stage = "registered",
                                                      !.id = latest.id]]
  /\ UNCHANGED <<allocated, unpersisted, unpersisted_allocations, latest, durable,
                 txn, handles, dropping, spent>>

\* ... and ReadTransaction::new then reads the root, in another critical
\* section: a commit may have come in between.
CaptureRoot(r) ==
  /\ readers[r].stage = "registered"
  /\ readers' = [readers EXCEPT ![r].stage = "reading", ![r].seen = latest.id,
                                ![r].data = latest.data]
  /\ UNCHANGED <<tracker, allocated, unpersisted, unpersisted_allocations, latest,
                 durable, txn, handles, dropping, spent>>

EndRead(r) ==
  /\ readers[r].stage = "reading"
  /\ tracker' = deallocate_read_transaction(tracker, readers[r].id)
  /\ readers' = [readers EXCEPT ![r] = NoRead]
  /\ UNCHANGED <<allocated, unpersisted, unpersisted_allocations, latest, durable,
                 txn, handles, dropping, spent>>

\* Drop of an ephemeral Savepoint, in the two critical sections of
\* deallocate_savepoint.
DropInvalidate(s) ==
  /\ s \in handles
  /\ tracker' = invalidate_savepoints(tracker, {s.sp})
  /\ handles' = handles \ {s}
  /\ dropping' = dropping \cup {s}
  /\ UNCHANGED <<allocated, unpersisted, unpersisted_allocations, latest, durable,
                 txn, readers, spent>>

DropRelease(s) ==
  /\ s \in dropping
  /\ tracker' = deallocate_read_transaction(tracker, s.id)
  /\ dropping' = dropping \ {s}
  /\ UNCHANGED <<allocated, unpersisted, unpersisted_allocations, latest, durable,
                 txn, readers, handles, spent>>

-----------------------------------------------------------------------------
(* Crash and recovery *)

\* Database::new on the durable state: load the allocator if it was saved by
\* that very commit, else rebuild it and commit again under the next id.
Crash ==
  LET loaded == durable.snapshot.id = durable.id
      last == IF loaded THEN durable.id ELSE durable.id + 1
      rows == {Row(s) : s \in durable.savepoints}
  IN  /\ spent.crashes < MaxCrash
      /\ last + 2 <= MaxTxn
      /\ spent' = [spent EXCEPT !.crashes = @ + 1]
      /\ durable' = [durable EXCEPT !.id = last]
      /\ latest' = durable'
      /\ allocated' = IF loaded THEN durable.snapshot.pages ELSE Rebuilt(durable)
      /\ unpersisted' = {}
      /\ unpersisted_allocations' = {}
      /\ tracker' = register_persistent_savepoints(
                      restore_savepoint_counter_state(new(last + 2),
                        durable.next_savepoint), rows)
      /\ txn' = EmptyTxn
      /\ readers' = [r \in Readers |-> NoRead]
      /\ handles' = {}
      /\ dropping' = {}

-----------------------------------------------------------------------------

Next ==
  \/ \E d \in Durabilities : begin_write(d)
  \/ \E added \in {{p} : p \in Pages \ allocated} :
        Update(added, {}) \/ \E p \in txn.data : Update(added, {p})
  \/ \E p \in txn.data : Update({}, {p})
  \/ ephemeral_savepoint \/ persistent_savepoint
  \/ \E s \in txn.savepoints : delete_persistent_savepoint(s)
  \/ \E s \in Restorable : restore_savepoint(s)
  \/ Abort
  \/ StartCommit \/ process_freed_pages \/ flush_data_allocated_pages
  \/ \E p \in Pages : DurableCommit(p)
  \/ CommitCleanup \/ EpilogueFree \/ EpilogueSkip
  \/ \E p \in Pages : EpiloguePublish(p)
  \/ EpilogueRegister
  \/ process_freed_pages_nondurable
  \/ \E p \in Pages : NonDurableCommit(p)
  \/ NonDurableRegister
  \/ \E r \in Readers : begin_read(r) \/ CaptureRoot(r) \/ EndRead(r)
  \/ \E s \in handles : DropInvalidate(s)
  \/ \E s \in dropping : DropRelease(s)
  \/ Crash

Spec == Init /\ [][Next]_vars

-----------------------------------------------------------------------------
(* Properties *)

\* Every piece of state has its type; in particular the tracker's reference
\* counts never go below zero, whatever commit, abort and Drop give back.
TypeOK ==
  /\ tracker \in State
  /\ allocated \subseteq Pages /\ unpersisted \subseteq Pages
  /\ unpersisted_allocations \subseteq Entry
  /\ latest \in Commit /\ durable \in Commit
  /\ txn.data \subseteq Pages /\ txn.freed \subseteq Pages /\ txn.fresh \subseteq Pages
  /\ txn.data_freed \cup txn.system_freed \cup txn.data_allocated \subseteq Entry
  /\ txn.savepoints \cup txn.created \cup txn.deleted \subseteq Savepoint
  /\ handles \cup dropping \subseteq Savepoint
  /\ \A r \in Readers : /\ readers[r].data \subseteq Pages
                        /\ {readers[r].id, readers[r].seen} \subseteq TransactionId
  /\ spent \in [writes : 0 .. MaxWrites, crashes : 0 .. MaxCrash]

\* docs/design.md: readers are registered "so that no pages that root
\* references are freed".
ReadersPinned ==
  \A r \in Readers : readers[r].stage = "reading" => readers[r].data \subseteq allocated

\* The same for readers that got the root of the transaction they registered.
RegisteredReadersPinned ==
  \A r \in Readers :
    readers[r].stage = "reading" /\ readers[r].seen = readers[r].id
      => readers[r].data \subseteq allocated

\* A savepoint that can still be restored, now or after a crash, has all its
\* pages: freed lists newer than it are neither processed by a commit nor by
\* the epilogue, though deleting and dropping savepoints moves the horizon
\* while a commit is under way and another savepoint may be the oldest.
SavepointsPinned ==
  /\ \A s \in handles : is_valid_savepoint(tracker, s.sp) => s.data \subseteq allocated
  /\ \A s \in durable.savepoints : s.data \subseteq allocated

\* Neither the published trees nor those of the last durable commit, to which a
\* crash rolls back, ever lose a page: docs/design.md, "Pages that are durable
\* must never be freed during a non-durable commit".
CommittedTreesAllocated ==
  \A c \in {latest, durable} : c.data \cup {c.system} \subseteq allocated

\* Every page belongs to exactly one of: the data tree, the system tree, one
\* entry of the freed tables.
Partitioned(c) ==
  LET entries == c.data_freed \cup c.system_freed
  IN  /\ c.system \notin c.data
      /\ PagesOf(entries) \cap (c.data \cup {c.system}) = {}
      /\ \A e, f \in entries : e[2] = f[2] => e = f
      /\ c.data_freed \cap c.system_freed = {}

\* Between transactions the allocator holds the pages that the published state
\* accounts for and no others: no page leaks, none is freed twice, and a
\* rebuild after a crash finds each page once.
AllocatorExact ==
  /\ txn.pc = "idle" => allocated = Rebuilt(latest)
  /\ Partitioned(latest) /\ Partitioned(durable)

\* process_freed_pages: "these pages cannot be unpersisted"; and pages that no
\* durable commit has written are not needed by the durable state.
UnpersistedExact ==
  /\ unpersisted \subseteq allocated
  /\ unpersisted \cap (durable.data \cup {durable.system}) = {}
  /\ \A s \in durable.savepoints : unpersisted \cap s.data = {}
  /\ txn.pc = "freeing" =>
       unpersisted \cap PagesOf(Before(txn.data_freed \cup txn.system_freed,
                                       txn.free_until)) = {}
  /\ txn.pc = "published_nondurable" => txn.extracted \subseteq unpersisted

\* The allocator snapshot of a quick-repair commit, which the next open trusts,
\* is what a full repair would compute from the same roots.
SnapshotExact ==
  durable.snapshot.id = durable.id => durable.snapshot.pages = Rebuilt(durable)

\* What restore_savepoint queues for freeing: pages that are allocated, that
\* the restored tree does not use and that no other list names.
FreedQueueSound ==
  txn.pc = "live" =>
    /\ txn.freed \subseteq allocated
    /\ txn.freed \cap (txn.data \cup txn.fresh) = {}
    /\ txn.freed \cap PagesOf(txn.data_freed \cup txn.system_freed) = {}

\* check_repaired_allocated_pages_table: after a rebuild from the durable
\* roots, every page named by DATA_ALLOCATED_TABLE is allocated.
RepairedTableAllocated == PagesOf(durable.data_allocated) \subseteq Rebuilt(durable)

\* flush_data_allocated_pages: "DATA_ALLOCATED_TABLE must never name a page that
\* is no longer allocated".
LiveTableAllocated ==
  txn.pc = "idle" => PagesOf(latest.data_allocated) \subseteq allocated
=============================================================================
