------------------------ MODULE TransactionTracker ------------------------
(***************************************************************************)
(* The book-keeping of src/src/transaction_tracker.rs: one record, `State` *)
(* in the code, guarded by one mutex.  Every operator below is one method, *)
(* that is one critical section of that mutex; the modules that use them   *)
(* (TrackerClients, Reclamation) say who calls them and in which order.    *)
(*                                                                         *)
(* live_read_transactions is a map from transaction id to a reference      *)
(* count that is positive; here a total function in which absent keys have *)
(* count 0.  Maps from ids to ids are sets of pairs.                       *)
(***************************************************************************)
EXTENDS Integers, FiniteSets

CONSTANTS MaxTxn,        \* bound on transaction ids
          MaxSavepoint   \* bound on savepoint ids

\* Opening a database that was just created takes the first three ids.
ASSUME TrackerBounds == MaxTxn \in Nat /\ MaxTxn >= 3 /\ MaxSavepoint \in Nat

TransactionId == 0 .. MaxTxn
SavepointId == 0 .. MaxSavepoint

\* live_write_transaction = None.  Ids are incremented before they are handed
\* out, so no write transaction ever has id 0.
NoTxn == 0

State ==
  [next_savepoint_id : SavepointId,
   live_read_transactions : [TransactionId -> Nat],
   next_transaction_id : TransactionId,
   live_write_transaction : TransactionId,
   valid_savepoints : SUBSET (SavepointId \X TransactionId),
   persistent_savepoints : SUBSET SavepointId,
   pending_non_durable_commits : SUBSET (TransactionId \X TransactionId),
   unprocessed_freed_non_durable_commits : SUBSET TransactionId]

new(next) ==
  [next_savepoint_id |-> 0,
   live_read_transactions |-> [t \in TransactionId |-> 0],
   next_transaction_id |-> next,
   live_write_transaction |-> NoTxn,
   valid_savepoints |-> {},
   persistent_savepoints |-> {},
   pending_non_durable_commits |-> {},
   unprocessed_freed_non_durable_commits |-> {}]

-----------------------------------------------------------------------------
(* Write transactions *)

\* The part of start_write_transaction after the condition-variable loop.
start_write_transaction(tr) ==
  [tr EXCEPT !.next_transaction_id = @ + 1,
             !.live_write_transaction = tr.next_transaction_id + 1]

end_write_transaction(tr) == [tr EXCEPT !.live_write_transaction = NoTxn]

\* The id of the post-commit epilogue, taken without a write transaction.
reserve_transaction_id(tr, id) == [tr EXCEPT !.next_transaction_id = id]

-----------------------------------------------------------------------------
(* References on transactions *)

reference(tr, id) == [tr EXCEPT !.live_read_transactions[id] = @ + 1]

\* Faulty variant: the reference is given back twice.
deallocate_read_transaction_Twice(tr, id) ==
  [tr EXCEPT !.live_read_transactions[id] = @ - 2]

deallocate_read_transaction(tr, id) ==
  [tr EXCEPT !.live_read_transactions[id] = @ - 1]

\* `last` is mem.get_last_committed_transaction_id(), read inside the lock.
register_read_transaction(tr, last) == reference(tr, last)

live_transactions(tr) ==
  {t \in DOMAIN tr.live_read_transactions : tr.live_read_transactions[t] > 0}

\* Minimum of a set of ids, or `default` for the empty set (Option::map_or).
OldestOr(S, default) ==
  IF S = {} THEN default ELSE CHOOSE t \in S : \A u \in S : t <= u

-----------------------------------------------------------------------------
(* Non-durable commits *)

PendingIds(tr) == {c[1] : c \in tr.pending_non_durable_commits}

PendingOn(tr, ancestor) ==
  {c \in tr.pending_non_durable_commits : c[2] = ancestor}

\* Faulty variant: the durable ancestor is not pinned.
register_non_durable_commit_Unpinned(tr, id, ancestor, has_unprocessed) ==
  [tr EXCEPT
     !.pending_non_durable_commits = @ \cup {<<id, ancestor>>},
     !.unprocessed_freed_non_durable_commits =
        IF has_unprocessed THEN @ \cup {id} ELSE @]

register_non_durable_commit(tr, id, ancestor, has_unprocessed) ==
  [reference(tr, ancestor) EXCEPT
     !.pending_non_durable_commits = @ \cup {<<id, ancestor>>},
     !.unprocessed_freed_non_durable_commits =
        IF has_unprocessed THEN @ \cup {id} ELSE @]

\* Faulty variant: the commits are forgotten, their references stay.
clear_pending_non_durable_commits_Leaked(tr) ==
  [tr EXCEPT !.pending_non_durable_commits = {}]

\* Every pending commit gives back its reference on its durable ancestor.
clear_pending_non_durable_commits(tr) ==
  [tr EXCEPT
     !.pending_non_durable_commits = {},
     !.live_read_transactions =
        [t \in DOMAIN @ |-> @[t] - Cardinality(PendingOn(tr, t))]]

mark_non_durable_freed_pages_processed(tr, ids) ==
  [tr EXCEPT !.unprocessed_freed_non_durable_commits = @ \ ids]

\* Faulty variant: readers of non-durable commits are overlooked.
live_nondurable_transactions_Overlooked(tr) == {}

live_nondurable_transactions(tr) == live_transactions(tr) \cap PendingIds(tr)

-----------------------------------------------------------------------------
(* Savepoints *)

\* Keys of the BTreeMap valid_savepoints.
ValidIds(tr) == {v[1] : v \in tr.valid_savepoints}

allocate_savepoint(tr, id) ==
  [tr EXCEPT !.next_savepoint_id = @ + 1,
             !.valid_savepoints = @ \cup {<<tr.next_savepoint_id + 1, id>>}]

mark_savepoint_persistent(tr, sp) ==
  [tr EXCEPT !.persistent_savepoints = @ \cup {sp}]

\* Also the first critical section of deallocate_savepoint; the second is
\* deallocate_read_transaction.
invalidate_savepoints(tr, sps) ==
  [tr EXCEPT !.valid_savepoints = {v \in @ : v[1] \notin sps},
             !.persistent_savepoints = @ \ sps]

\* Faulty variant: one reference per transaction, though several savepoints
\* may have been taken of it.
register_persistent_savepoints_Once(tr, rows) ==
  [tr EXCEPT !.live_read_transactions =
                [t \in DOMAIN @ |-> IF \E row \in rows : row[2] = t THEN 1 ELSE 0],
             !.valid_savepoints = rows,
             !.persistent_savepoints = {row[1] : row \in rows}]

\* register_persistent_savepoint for every row of SAVEPOINT_TABLE, on a
\* tracker that holds no reference yet.
register_persistent_savepoints(tr, rows) ==
  [tr EXCEPT !.live_read_transactions =
                [t \in DOMAIN @ |-> Cardinality({row \in rows : row[2] = t})],
             !.valid_savepoints = rows,
             !.persistent_savepoints = {row[1] : row \in rows}]

restore_savepoint_counter_state(tr, next) ==
  [tr EXCEPT !.next_savepoint_id = next]

is_valid_savepoint(tr, sp) == sp \in ValidIds(tr)

list_savepoints_after(tr, sp) == {s \in ValidIds(tr) : s > sp}

\* The transaction of the savepoint with the smallest id outside `exclude`:
\* ids and transactions of valid savepoints grow together, so this is the
\* savepoint horizon.
oldest_savepoint_excluding(tr, exclude, default) ==
  LET kept == {v \in tr.valid_savepoints : v[1] \notin exclude}
  IN  IF kept = {} THEN default
      ELSE (CHOOSE v \in kept : \A u \in kept : v[1] <= u[1])[2]

\* Faulty variant: a pin alone counts as a reader.
any_user_read_reference_exists_Pins(tr) ==
  \E t \in live_transactions(tr) :
     tr.live_read_transactions[t] >= Cardinality(PendingOn(tr, t))

\* True if some reference is not an internal pin of a pending commit.
any_user_read_reference_exists(tr) ==
  \E t \in live_transactions(tr) :
     tr.live_read_transactions[t] > Cardinality(PendingOn(tr, t))

=============================================================================
