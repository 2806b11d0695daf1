-------------------------- MODULE TrackerClients --------------------------
(***************************************************************************)
(* The threads that share one TransactionTracker: writers blocked on its   *)
(* condition variable, readers, and the owners of savepoints.  Each action *)
(* is one critical section of the tracker's mutex (or one access to the    *)
(* header behind the state mutex of TransactionalMemory), so a method that *)
(* takes the lock twice is two actions and other threads run in between.   *)
(*                                                                         *)
(* Pages are left out: module Reclamation adds them.  Here the question is *)
(* whether the reference counts, which decide what may be reclaimed, are   *)
(* exactly the references that exist, and whether writers make progress.   *)
(***************************************************************************)
EXTENDS TransactionTracker

CONSTANTS Writers,   \* threads calling Database::begin_write
          Readers    \* threads calling Database::begin_read

VARIABLES
  tracker,    \* the State record behind the tracker's mutex
  latest,     \* TransactionalMemory::get_last_committed_transaction_id
  durable,    \* TransactionalMemory::get_last_durable_transaction_id
  wpc,        \* program counter of every writer thread
  txn,        \* SavepointTransactionState of the live write transaction
  reading,    \* {<<r, id>>}: the TransactionGuard::Read objects alive
  handles,    \* {<<sp, id>>}: ephemeral Savepoint objects held by users
  dropping,   \* {<<sp, id>>}: the ones between the two halves of their Drop
  table,      \* {<<sp, id>>}: committed rows of SAVEPOINT_TABLE
  next_table  \* committed value of NEXT_SAVEPOINT_TABLE, 0 if there is none

vars == <<tracker, latest, durable, wpc, txn, reading, handles, dropping, table,
          next_table>>

\* Writer threads inside start_write_transaction.
Starting == {"idle", "woken"}

\* Phases of a writer that owns live_write_transaction: "live" while the user
\* works, the rest are stages of commit_inner or abort_inner.
Owning == {"live", "committed", "nondurable", "applying", "epilogue",
           "published", "reserved", "ending", "aborting"}

\* A savepoint and the transaction it pins.
Row == SavepointId \X TransactionId

\* The savepoints that the live write transaction has created, deleted or made
\* invalid; the one it is releasing; the one under construction.
SavepointTransactionState ==
  [created : SUBSET Row, deleted : SUBSET Row, invalidated : SUBSET SavepointId,
   releasing : SUBSET Row,
   building : [stage : {"none", "registered", "allocated"},
               sp : SavepointId, id : TransactionId],
   dirty : BOOLEAN, durability : {"Immediate", "None"}]

NoSavepoint == [stage |-> "none", sp |-> 0, id |-> 0]

EmptyTxn == [created |-> {}, deleted |-> {}, invalidated |-> {},
             releasing |-> {}, building |-> NoSavepoint, dirty |-> FALSE,
             durability |-> "Immediate"]

\* The rows of SAVEPOINT_TABLE as the live write transaction sees them.
View == (table \cup txn.created) \ txn.deleted

\* A database that was just created: the first open has committed the empty
\* trees under id 1 and aborted the write transaction that looks for savepoints.
Init ==
  /\ tracker = new(3)
  /\ latest = 1
  /\ durable = 1
  /\ wpc = [w \in Writers |-> "idle"]
  /\ txn = EmptyTxn
  /\ reading = {}
  /\ handles = {}
  /\ dropping = {}
  /\ table = {}
  /\ next_table = 0

-----------------------------------------------------------------------------
(* Writers and the condition variable *)

\* start_write_transaction: take the lock and sleep while another write
\* transaction is live.
Wait(w) ==
  /\ wpc[w] \in Starting
  /\ tracker.live_write_transaction # NoTxn
  /\ wpc' = [wpc EXCEPT ![w] = "waiting"]
  /\ UNCHANGED <<tracker, latest, durable, txn, reading, handles, dropping,
                 table, next_table>>

\* Condvar::wait may also return without a notification.
SpuriousWakeup(w) ==
  /\ wpc[w] = "waiting"
  /\ wpc' = [wpc EXCEPT ![w] = "woken"]
  /\ UNCHANGED <<tracker, latest, durable, txn, reading, handles, dropping,
                 table, next_table>>

\* Faulty variant: a thread that has waited never gets its turn.
StartWrite_NewcomersOnly(w) ==
  /\ wpc[w] = "idle"
  /\ tracker.live_write_transaction = NoTxn
  /\ tracker.next_transaction_id + 2 <= MaxTxn
  /\ tracker' = start_write_transaction(tracker)
  /\ wpc' = [wpc EXCEPT ![w] = "live"]
  /\ txn' = EmptyTxn
  /\ UNCHANGED <<latest, durable, reading, handles, dropping, table,
                 next_table>>

\* One id is kept back for the epilogue of the transaction that starts here.
StartWrite(w) ==
  /\ wpc[w] \in Starting
  /\ tracker.live_write_transaction = NoTxn
  /\ tracker.next_transaction_id + 2 <= MaxTxn
  /\ tracker' = start_write_transaction(tracker)
  /\ wpc' = [wpc EXCEPT ![w] = "live"]
  /\ txn' = EmptyTxn
  /\ UNCHANGED <<latest, durable, reading, handles, dropping, table,
                 next_table>>

\* Faulty variant: nobody is notified.
Notified_Nobody(pcs) == {pcs}

\* Threads that notify_one may wake: one of the sleepers, if there is any.
Notified(pcs) ==
  LET asleep == {v \in Writers : pcs[v] = "waiting"}
  IN  IF asleep = {} THEN {pcs}
      ELSE {[pcs EXCEPT ![v] = "woken"] : v \in asleep}

\* Drop of TransactionGuard::Write: end_write_transaction and notify_one.
EndWrite(w) ==
  /\ wpc[w] = "ending"
  /\ tracker' = end_write_transaction(tracker)
  /\ wpc' \in Notified([wpc EXCEPT ![w] = "idle"])
  /\ UNCHANGED <<latest, durable, txn, reading, handles, dropping, table,
                 next_table>>

-----------------------------------------------------------------------------
(* Savepoints taken, deleted and restored by the live write transaction *)

\* Durability::None is refused once persistent savepoints were created or
\* deleted.
set_durability(w, durability) ==
  /\ wpc[w] = "live"
  /\ txn.building.stage = "none"
  /\ durability = "None" => txn.created = {} /\ txn.deleted = {}
  /\ txn' = [txn EXCEPT !.durability = durability]
  /\ UNCHANGED <<tracker, latest, durable, wpc, reading, handles, dropping,
                 table, next_table>>

\* Faulty variant: a savepoint of a durable transaction pins the last durable
\* commit, others the latest one.
SavepointTransaction_Durable ==
  IF txn.durability = "Immediate" THEN durable ELSE latest

\* The transaction that a savepoint pins, read by register_read_transaction.
SavepointTransaction == latest

\* ephemeral_savepoint refuses a dirty transaction.  Then the first lock
\* section of WriteTransaction::allocate_savepoint.
SavepointRegister(w) ==
  /\ wpc[w] = "live"
  /\ txn.building.stage = "none"
  /\ ~txn.dirty
  /\ tracker.next_savepoint_id + 1 <= MaxSavepoint
  /\ LET sp == tracker.next_savepoint_id + 1
         id == SavepointTransaction
     IN  /\ tracker' = register_read_transaction(tracker, id)
         /\ txn' = [txn EXCEPT !.building =
                      [stage |-> "registered", sp |-> sp, id |-> id]]
  /\ UNCHANGED <<latest, durable, wpc, reading, handles, dropping, table,
                 next_table>>

\* Second lock section: TransactionTracker::allocate_savepoint.
SavepointAllocate(w) ==
  /\ wpc[w] = "live"
  /\ txn.building.stage = "registered"
  /\ tracker' = allocate_savepoint(tracker, txn.building.id)
  /\ txn' = [txn EXCEPT !.building.stage = "allocated"]
  /\ UNCHANGED <<latest, durable, wpc, reading, handles, dropping, table,
                 next_table>>

\* ephemeral_savepoint returns the handle to the user.
SavepointReturn(w) ==
  /\ wpc[w] = "live"
  /\ txn.building.stage = "allocated"
  /\ handles' = handles \cup {<<txn.building.sp, txn.building.id>>}
  /\ txn' = [txn EXCEPT !.building = NoSavepoint]
  /\ UNCHANGED <<tracker, latest, durable, wpc, reading, dropping, table,
                 next_table>>

\* persistent_savepoint: row written, marked in the tracker, recorded in the
\* transaction; the row's reference outlives the handle.
SavepointPersist(w) ==
  /\ wpc[w] = "live"
  /\ txn.building.stage = "allocated"
  /\ txn.durability = "Immediate"
  /\ tracker' = mark_savepoint_persistent(tracker, txn.building.sp)
  /\ txn' = [txn EXCEPT !.created =
                           @ \cup {<<txn.building.sp, txn.building.id>>},
                        !.building = NoSavepoint]
  /\ UNCHANGED <<latest, durable, wpc, reading, handles, dropping, table,
                 next_table>>

delete_persistent_savepoint(w, row) ==
  /\ wpc[w] = "live"
  /\ txn.building.stage = "none"
  /\ txn.durability = "Immediate"
  /\ row \in View
  /\ txn' = [txn EXCEPT !.deleted = @ \cup {row}]
  /\ UNCHANGED <<tracker, latest, durable, wpc, reading, handles, dropping,
                 table, next_table>>

\* A savepoint is restored through a live handle or one made from its row.
restore_savepoint(w, sp) ==
  /\ wpc[w] = "live"
  /\ txn.building.stage = "none"
  /\ \E row \in handles \cup table \cup txn.created : row[1] = sp
  /\ is_valid_savepoint(tracker, sp)
  /\ sp \notin txn.invalidated
  /\ txn.durability = "Immediate" \/ \A row \in View : row[1] <= sp
  /\ txn' = [txn EXCEPT
               !.invalidated = @ \cup list_savepoints_after(tracker, sp),
               !.deleted = @ \cup {row \in View : row[1] > sp},
               !.dirty = TRUE]
  /\ UNCHANGED <<tracker, latest, durable, wpc, reading, handles, dropping,
                 table, next_table>>

-----------------------------------------------------------------------------
(* The end of a write transaction, one lock section at a time *)

\* TransactionalMemory::commit makes the transaction durable and visible.
MemCommit(w) ==
  /\ wpc[w] = "live"
  /\ txn.building.stage = "none"
  /\ txn.durability = "Immediate"
  /\ latest' = tracker.live_write_transaction
  /\ durable' = tracker.live_write_transaction
  /\ table' = View
  /\ \/ txn.created = {} /\ next_table' = next_table
     \/ \E row \in txn.created :
          /\ \A other \in txn.created : other[1] <= row[1]
          /\ next_table' = row[1] + 1
  /\ wpc' = [wpc EXCEPT ![w] = "committed"]
  /\ UNCHANGED <<tracker, txn, reading, handles, dropping>>

ClearPending(w) ==
  /\ wpc[w] = "committed"
  /\ tracker' = clear_pending_non_durable_commits(tracker)
  /\ wpc' = [wpc EXCEPT ![w] = "applying"]
  /\ UNCHANGED <<latest, durable, txn, reading, handles, dropping, table,
                 next_table>>

\* TransactionalMemory::non_durable_commit makes the transaction visible.
MemNonDurableCommit(w) ==
  /\ wpc[w] = "live"
  /\ txn.building.stage = "none"
  /\ txn.durability = "None"
  /\ latest' = tracker.live_write_transaction
  /\ wpc' = [wpc EXCEPT ![w] = "nondurable"]
  /\ UNCHANGED <<tracker, durable, txn, reading, handles, dropping, table,
                 next_table>>

\* Faulty variant: the commit pins itself.
RegisterNonDurable_PinsLatest(w) ==
  /\ wpc[w] = "nondurable"
  /\ \E unprocessed \in BOOLEAN :
       tracker' = register_non_durable_commit(tracker,
                    tracker.live_write_transaction, latest, unprocessed)
  /\ wpc' = [wpc EXCEPT ![w] = "applying"]
  /\ UNCHANGED <<latest, durable, txn, reading, handles, dropping, table,
                 next_table>>

\* has_unprocessed_freed_pages depends on the pages that were freed.
RegisterNonDurable(w) ==
  /\ wpc[w] = "nondurable"
  /\ \E unprocessed \in BOOLEAN :
       tracker' = register_non_durable_commit(tracker,
                    tracker.live_write_transaction, durable, unprocessed)
  /\ wpc' = [wpc EXCEPT ![w] = "applying"]
  /\ UNCHANGED <<latest, durable, txn, reading, handles, dropping, table,
                 next_table>>

\* apply_on_commit and apply_on_abort release savepoints one by one, each with
\* the two lock sections of deallocate_savepoint.
ReleaseInvalidate(w, row) ==
  /\ \/ wpc[w] = "applying" /\ row \in txn.deleted
     \/ wpc[w] = "aborting" /\ row \in txn.created
  /\ txn.releasing = {}
  /\ tracker' = invalidate_savepoints(tracker, {row[1]})
  /\ txn' = [txn EXCEPT !.releasing = {row}]
  /\ UNCHANGED <<latest, durable, wpc, reading, handles, dropping, table,
                 next_table>>

ReleaseReference(w, row) ==
  /\ wpc[w] \in {"applying", "aborting"}
  /\ row \in txn.releasing
  /\ tracker' = deallocate_read_transaction(tracker, row[2])
  /\ txn' = [txn EXCEPT !.releasing = {}, !.created = @ \ {row},
                        !.deleted = @ \ {row}]
  /\ UNCHANGED <<latest, durable, wpc, reading, handles, dropping, table,
                 next_table>>

\* Last part of apply_on_commit.  After a durable commit the epilogue may
\* follow; after a non-durable one there is none.
ApplyInvalidated(w) ==
  /\ wpc[w] = "applying"
  /\ txn.deleted = {} /\ txn.releasing = {}
  /\ tracker' = invalidate_savepoints(tracker, txn.invalidated)
  /\ txn' = [txn EXCEPT !.invalidated = {}, !.created = {}]
  /\ wpc' = [wpc EXCEPT ![w] = IF txn.durability = "Immediate"
                               THEN "epilogue" ELSE "ending"]
  /\ UNCHANGED <<latest, durable, reading, handles, dropping, table,
                 next_table>>

\* process_data_freed_pages_after_commit returns early when it is disabled or
\* nothing could be freed ...
EpilogueSkip(w) ==
  /\ wpc[w] = "epilogue"
  /\ wpc' = [wpc EXCEPT ![w] = "ending"]
  /\ UNCHANGED <<tracker, latest, durable, txn, reading, handles, dropping,
                 table, next_table>>

\* ... and otherwise publishes a root under the next transaction id,
EpiloguePublish(w) ==
  /\ wpc[w] = "epilogue"
  /\ latest' = tracker.live_write_transaction + 1
  /\ wpc' = [wpc EXCEPT ![w] = "published"]
  /\ UNCHANGED <<tracker, durable, txn, reading, handles, dropping, table,
                 next_table>>

\* Faulty variant: the id of the epilogue is not reserved.
EpilogueReserve_Unreserved(w) ==
  /\ wpc[w] = "published"
  /\ wpc' = [wpc EXCEPT ![w] = "reserved"]
  /\ UNCHANGED <<tracker, latest, durable, txn, reading, handles, dropping,
                 table, next_table>>

\* reserves that id,
EpilogueReserve(w) ==
  /\ wpc[w] = "published"
  /\ tracker' = reserve_transaction_id(tracker, latest)
  /\ wpc' = [wpc EXCEPT ![w] = "reserved"]
  /\ UNCHANGED <<latest, durable, txn, reading, handles, dropping, table,
                 next_table>>

\* and registers it as a non-durable commit on top of this transaction.
EpilogueRegister(w) ==
  /\ wpc[w] = "reserved"
  /\ \E unprocessed \in BOOLEAN :
       tracker' = register_non_durable_commit(tracker, latest,
                    tracker.live_write_transaction, unprocessed)
  /\ wpc' = [wpc EXCEPT ![w] = "ending"]
  /\ UNCHANGED <<latest, durable, txn, reading, handles, dropping, table,
                 next_table>>

\* abort_inner, also run by Drop of an unfinished transaction.
Abort(w) ==
  /\ wpc[w] = "live"
  /\ txn.building.stage = "none"
  /\ wpc' = [wpc EXCEPT ![w] = "aborting"]
  /\ txn' = [txn EXCEPT !.deleted = {}, !.invalidated = {}]
  /\ UNCHANGED <<tracker, latest, durable, reading, handles, dropping, table,
                 next_table>>

\* Faulty variant: savepoints created by the transaction are not released.
AbortDone_Unreleased(w) ==
  /\ wpc[w] = "aborting"
  /\ wpc' = [wpc EXCEPT ![w] = "ending"]
  /\ UNCHANGED <<tracker, latest, durable, txn, reading, handles, dropping,
                 table, next_table>>

AbortDone(w) ==
  /\ wpc[w] = "aborting"
  /\ txn.created = {} /\ txn.releasing = {}
  /\ wpc' = [wpc EXCEPT ![w] = "ending"]
  /\ UNCHANGED <<tracker, latest, durable, txn, reading, handles, dropping,
                 table, next_table>>

-----------------------------------------------------------------------------
(* Readers and owners of ephemeral savepoints *)

BeginRead(r) ==
  /\ \A g \in reading : g[1] # r
  /\ tracker' = register_read_transaction(tracker, latest)
  /\ reading' = reading \cup {<<r, latest>>}
  /\ UNCHANGED <<latest, durable, wpc, txn, handles, dropping, table,
                 next_table>>

EndRead(g) ==
  /\ g \in reading
  /\ tracker' = deallocate_read_transaction(tracker, g[2])
  /\ reading' = reading \ {g}
  /\ UNCHANGED <<latest, durable, wpc, txn, handles, dropping, table,
                 next_table>>

\* Faulty variant: the reference goes before the savepoint is invalid.
DropInvalidate_ReleaseFirst(row) ==
  /\ row \in handles
  /\ tracker' = deallocate_read_transaction(tracker, row[2])
  /\ handles' = handles \ {row}
  /\ dropping' = dropping \cup {row}
  /\ UNCHANGED <<latest, durable, wpc, txn, reading, table, next_table>>

\* Drop of an ephemeral Savepoint, from any thread: deallocate_savepoint.
DropInvalidate(row) ==
  /\ row \in handles
  /\ tracker' = invalidate_savepoints(tracker, {row[1]})
  /\ handles' = handles \ {row}
  /\ dropping' = dropping \cup {row}
  /\ UNCHANGED <<latest, durable, wpc, txn, reading, table, next_table>>

DropRelease(row) ==
  /\ row \in dropping
  /\ tracker' = deallocate_read_transaction(tracker, row[2])
  /\ dropping' = dropping \ {row}
  /\ UNCHANGED <<latest, durable, wpc, txn, reading, handles, table,
                 next_table>>

-----------------------------------------------------------------------------
(* Crash or close, and the next Database::new *)

\* The durable state is all that is left.  Unless the allocator state could be
\* loaded, the repair commits it again under the next id.  Database::new then
\* builds a tracker, re-registers the persistent savepoints inside a write
\* transaction, and aborts that transaction.
Reopen(repaired) ==
  LET last == IF repaired THEN durable + 1 ELSE durable
      counted == restore_savepoint_counter_state(new(last + 1), next_table)
  IN  /\ last + 2 <= MaxTxn
      /\ next_table <= MaxSavepoint
      /\ latest' = last
      /\ durable' = last
      /\ tracker' = end_write_transaction(
                      register_persistent_savepoints(
                        start_write_transaction(counted), table))
      /\ wpc' = [w \in Writers |-> "idle"]
      /\ txn' = EmptyTxn
      /\ reading' = {}
      /\ handles' = {}
      /\ dropping' = {}
      /\ UNCHANGED <<table, next_table>>

-----------------------------------------------------------------------------

\* Steps a writer takes by itself once the user has called begin_write and
\* decided between commit and abort.
Progress(w) ==
  \/ Wait(w) /\ wpc[w] = "woken"
  \/ StartWrite(w) /\ wpc[w] = "woken"
  \/ MemCommit(w) \/ ClearPending(w) \/ MemNonDurableCommit(w)
  \/ RegisterNonDurable(w) \/ ApplyInvalidated(w) \/ EpilogueSkip(w)
  \/ EpilogueReserve(w) \/ EpilogueRegister(w) \/ AbortDone(w) \/ EndWrite(w)
  \/ SavepointAllocate(w) \/ SavepointReturn(w)
  \/ \E row \in txn.created \cup txn.deleted :
       ReleaseInvalidate(w, row) \/ ReleaseReference(w, row)

Next ==
  \/ \E w \in Writers :
       \/ Wait(w) \/ SpuriousWakeup(w) \/ StartWrite(w) \/ EndWrite(w)
       \/ \E durability \in {"Immediate", "None"} : set_durability(w, durability)
       \/ SavepointRegister(w) \/ SavepointAllocate(w) \/ SavepointReturn(w)
       \/ SavepointPersist(w)
       \/ \E row \in View : delete_persistent_savepoint(w, row)
       \/ \E sp \in SavepointId : restore_savepoint(w, sp)
       \/ MemCommit(w) \/ ClearPending(w) \/ MemNonDurableCommit(w)
       \/ RegisterNonDurable(w)
       \/ \E row \in txn.created \cup txn.deleted : ReleaseInvalidate(w, row)
       \/ \E row \in txn.created \cup txn.deleted : ReleaseReference(w, row)
       \/ ApplyInvalidated(w) \/ EpilogueSkip(w) \/ EpiloguePublish(w)
       \/ EpilogueReserve(w) \/ EpilogueRegister(w) \/ Abort(w) \/ AbortDone(w)
  \/ \E r \in Readers : BeginRead(r)
  \/ \E g \in reading : EndRead(g)
  \/ \E row \in handles : DropInvalidate(row)
  \/ \E row \in dropping : DropRelease(row)
  \/ \E repaired \in BOOLEAN : Reopen(repaired)

Spec == Init /\ [][Next]_vars

\* Threads are scheduled, and a user who began a write transaction ends it.
FairSpec == Spec /\ \A w \in Writers : WF_vars(Progress(w))

-----------------------------------------------------------------------------
(* Properties *)

RefsOn(S, t) == {x \in S : x[2] = t}

\* The savepoint under construction, once it has registered its reference.
Building == IF txn.building.stage = "none" THEN {}
            ELSE {<<txn.building.sp, txn.building.id>>}

\* Every savepoint that owns a reference, whoever holds it.
SavepointRefs == handles \cup dropping \cup table \cup txn.created
                   \cup txn.deleted \cup Building

\* Every piece of state keeps its type.  Nat for the counts says that the
\* decrement of deallocate_read_transaction and of
\* clear_pending_non_durable_commits never underflows.
TypeOK ==
  /\ tracker \in State
  /\ latest \in TransactionId
  /\ durable \in TransactionId
  /\ wpc \in [Writers -> Owning \cup Starting \cup {"waiting"}]
  /\ txn \in SavepointTransactionState
  /\ reading \in SUBSET (Readers \X TransactionId)
  /\ handles \in SUBSET Row
  /\ dropping \in SUBSET Row
  /\ table \in SUBSET Row
  /\ next_table \in Nat

\* The reference count of a transaction is exactly the number of references
\* that exist: one per read transaction, one per savepoint (valid, invalidated
\* or half dropped), one per pending non-durable commit on its durable
\* ancestor.  A count that is too small lets a page in use be reclaimed (and
\* makes get_mut(..).unwrap() panic), one that is too large leaks pages.
RefCountExact ==
  \A t \in TransactionId :
    tracker.live_read_transactions[t] =
      Cardinality(RefsOn(reading, t)) + Cardinality(RefsOn(SavepointRefs, t))
        + Cardinality(PendingOn(tracker, t))

\* A savepoint that restore_savepoint would accept is pinned: its transaction
\* is counted as live, in every interleaving of the two lock sections of
\* allocate_savepoint and deallocate_savepoint.
ValidSavepointsPinned ==
  \A v \in tracker.valid_savepoints :
    v \in SavepointRefs /\ v[2] \in live_transactions(tracker)

\* A pending non-durable commit pins the last durable transaction, so that
\* oldest_live_read_transaction never passes it and a durable commit frees
\* no page that the state to roll back to still needs.  The exceptions are
\* the steps of commit() between TransactionalMemory::commit and
\* clear_pending_non_durable_commits, when the old pins are still there.
DurableAncestorPinned ==
  /\ \A c \in tracker.pending_non_durable_commits :
       c[2] <= durable /\ c[2] \in live_transactions(tracker)
  /\ tracker.pending_non_durable_commits # {} =>
       \/ \E w \in Writers : wpc[w] = "committed"
       \/ durable \in live_transactions(tracker)

\* Writers exclude each other, and the live write transaction is newer than
\* everything that has been committed until it publishes itself.
SingleWriter ==
  /\ \A v, w \in Writers : wpc[v] \in Owning /\ wpc[w] \in Owning => v = w
  /\ \A w \in Writers :
       wpc[w] = "live" => /\ latest < tracker.live_write_transaction
                         /\ tracker.live_write_transaction =
                              tracker.next_transaction_id

\* The assertions of transaction_tracker.rs hold whenever they are reached:
\* live_write_transaction is Some in end_write_transaction, the id given to
\* reserve_transaction_id is the next one, register_non_durable_commit is
\* never called twice with one id (HashMap::insert returns None), and
\* mark_savepoint_persistent finds its savepoint valid.
AssertionsHold ==
  /\ \A w \in Writers :
       /\ wpc[w] = "ending" => tracker.live_write_transaction # NoTxn
       /\ wpc[w] = "published" => latest = tracker.next_transaction_id + 1
       /\ wpc[w] = "nondurable" =>
            tracker.live_write_transaction \notin PendingIds(tracker)
       /\ wpc[w] = "reserved" => latest \notin PendingIds(tracker)
  /\ txn.building.stage = "allocated" =>
       is_valid_savepoint(tracker, txn.building.sp)

\* No wakeup is lost although end_write_transaction calls notify_one and a
\* thread that just arrived may take the lock before the one it woke.
NoLostWakeup ==
  (\E w \in Writers : wpc[w] = "waiting") =>
     \/ tracker.live_write_transaction # NoTxn
     \/ \E w \in Writers : wpc[w] = "woken"

\* Savepoint ids and the transactions they pin are ordered alike.  This is
\* what lets oldest_savepoint_excluding return the transaction of the oldest
\* savepoint id as the horizon below which DATA_ALLOCATED_TABLE is purged.
SavepointOrder ==
  \A u, v \in tracker.valid_savepoints : u[1] < v[1] => u[2] <= v[2]

\* compact() relies on any_user_read_reference_exists to see every reader and
\* every savepoint, and to ignore the pins of pending commits.
UserReferencesSeen ==
  any_user_read_reference_exists(tracker) <=> (reading # {} \/ SavepointRefs # {})

\* persistent_savepoints is the set of rows of SAVEPOINT_TABLE once the
\* transaction that created or deleted rows is over.
PersistentMatchesTable ==
  (\A w \in Writers : wpc[w] \notin Owning) =>
     tracker.persistent_savepoints = {row[1] : row \in table}

\* When writers wait and no write transaction is live, one becomes live (as
\* long as ids are left), unless a crash takes the waiting threads with it.
WaitersServed ==
  (\E w \in Writers : wpc[w] = "waiting")
    /\ tracker.live_write_transaction = NoTxn
    /\ tracker.next_transaction_id + 2 <= MaxTxn
  ~> \/ tracker.live_write_transaction # NoTxn
     \/ \A w \in Writers : wpc[w] = "idle"
=============================================================================
