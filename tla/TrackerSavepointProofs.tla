---------------------- MODULE TrackerSavepointProofs ----------------------
(***************************************************************************)
(* Every step of TrackerClients preserves the parts Rows, Newest and Valid *)
(* of the inductive invariant of TrackerPhaseProofs, and what every step   *)
(* does to SavepointRefs, the references that savepoints hold.             *)
(***************************************************************************)
EXTENDS TrackerPhaseProofs

-----------------------------------------------------------------------------
(* What the actions on savepoints do to the fields of tracker and txn *)

\* SavepointRegister takes a reference; nothing else but `building` changes.
LEMMA RegisterFields ==
  ASSUME TypeOK, NEW w \in Writers, SavepointRegister(w)
  PROVE  /\ wpc[w] = "live" /\ txn.building.stage = "none"
         /\ UNCHANGED <<latest, durable, wpc, reading, handles, dropping, table,
                        next_table>>
         /\ tracker' = reference(tracker, latest)
         /\ tracker'.next_savepoint_id = tracker.next_savepoint_id
         /\ tracker'.valid_savepoints = tracker.valid_savepoints
         /\ txn'.created = txn.created /\ txn'.deleted = txn.deleted
         /\ txn'.releasing = txn.releasing
         /\ txn'.building = [stage |-> "registered",
                             sp |-> tracker.next_savepoint_id + 1, id |-> latest]
BY DEF SavepointRegister, SavepointTransaction, register_read_transaction,
       reference, TypeOK, State, SavepointTransactionState

\* SavepointAllocate makes the savepoint valid.
LEMMA AllocateFields ==
  ASSUME TypeOK, NEW w \in Writers, SavepointAllocate(w)
  PROVE  /\ wpc[w] = "live" /\ txn.building.stage = "registered"
         /\ UNCHANGED <<latest, durable, wpc, reading, handles, dropping, table,
                        next_table>>
         /\ tracker'.next_savepoint_id = tracker.next_savepoint_id + 1
         /\ tracker'.valid_savepoints = tracker.valid_savepoints
              \cup {<<tracker.next_savepoint_id + 1, txn.building.id>>}
         /\ tracker'.live_read_transactions = tracker.live_read_transactions
         /\ tracker'.pending_non_durable_commits =
              tracker.pending_non_durable_commits
         /\ txn'.created = txn.created /\ txn'.deleted = txn.deleted
         /\ txn'.releasing = txn.releasing
         /\ txn'.building = [stage |-> "allocated", sp |-> txn.building.sp,
                             id |-> txn.building.id]
<1>1. tracker \in State /\ txn \in SavepointTransactionState
  BY DEF TypeOK
<1>2. /\ tracker'.next_savepoint_id = tracker.next_savepoint_id + 1
      /\ tracker'.valid_savepoints = tracker.valid_savepoints
           \cup {<<tracker.next_savepoint_id + 1, txn.building.id>>}
      /\ tracker'.live_read_transactions = tracker.live_read_transactions
      /\ tracker'.pending_non_durable_commits =
           tracker.pending_non_durable_commits
  BY <1>1 DEF SavepointAllocate, allocate_savepoint, State
<1>3. /\ txn'.created = txn.created /\ txn'.deleted = txn.deleted
      /\ txn'.releasing = txn.releasing
      /\ txn'.building = [txn.building EXCEPT !.stage = "allocated"]
  BY <1>1 DEF SavepointAllocate, SavepointTransactionState
<1>4. [txn.building EXCEPT !.stage = "allocated"] =
        [stage |-> "allocated", sp |-> txn.building.sp, id |-> txn.building.id]
  BY <1>1 DEF SavepointTransactionState
<1>. QED
  BY <1>2, <1>3, <1>4 DEF SavepointAllocate

\* SavepointReturn gives the savepoint to the user.
LEMMA ReturnFields ==
  ASSUME TypeOK, NEW w \in Writers, SavepointReturn(w)
  PROVE  /\ wpc[w] = "live" /\ txn.building.stage = "allocated"
         /\ UNCHANGED <<tracker, latest, durable, wpc, reading, dropping, table,
                        next_table>>
         /\ handles' = handles \cup {<<txn.building.sp, txn.building.id>>}
         /\ txn'.created = txn.created /\ txn'.deleted = txn.deleted
         /\ txn'.releasing = txn.releasing /\ txn'.building = NoSavepoint
BY DEF SavepointReturn, TypeOK, SavepointTransactionState

\* SavepointPersist makes it a row of the transaction.
LEMMA PersistFields ==
  ASSUME TypeOK, NEW w \in Writers, SavepointPersist(w)
  PROVE  /\ wpc[w] = "live" /\ txn.building.stage = "allocated"
         /\ UNCHANGED <<latest, durable, wpc, reading, handles, dropping, table,
                        next_table>>
         /\ tracker'.next_savepoint_id = tracker.next_savepoint_id
         /\ tracker'.valid_savepoints = tracker.valid_savepoints
         /\ tracker'.live_read_transactions = tracker.live_read_transactions
         /\ tracker'.pending_non_durable_commits =
              tracker.pending_non_durable_commits
         /\ txn'.created = txn.created
              \cup {<<txn.building.sp, txn.building.id>>}
         /\ txn'.deleted = txn.deleted /\ txn'.releasing = txn.releasing
         /\ txn'.building = NoSavepoint
<1>1. tracker \in State /\ txn \in SavepointTransactionState
  BY DEF TypeOK
<1>2. /\ tracker'.next_savepoint_id = tracker.next_savepoint_id
      /\ tracker'.valid_savepoints = tracker.valid_savepoints
      /\ tracker'.live_read_transactions = tracker.live_read_transactions
      /\ tracker'.pending_non_durable_commits =
           tracker.pending_non_durable_commits
  BY <1>1 DEF SavepointPersist, mark_savepoint_persistent, State
<1>3. /\ txn'.created = txn.created
           \cup {<<txn.building.sp, txn.building.id>>}
      /\ txn'.deleted = txn.deleted /\ txn'.releasing = txn.releasing
      /\ txn'.building = NoSavepoint
  BY <1>1 DEF SavepointPersist, SavepointTransactionState
<1>. QED
  BY <1>2, <1>3 DEF SavepointPersist

\* Deleting and restoring add rows to those that the commit will release.
LEMMA DeleteFields ==
  ASSUME TypeOK, NEW w \in Writers,
         \/ \E row \in View : delete_persistent_savepoint(w, row)
         \/ \E sp \in SavepointId : restore_savepoint(w, sp)
  PROVE  /\ wpc[w] = "live"
         /\ UNCHANGED <<tracker, latest, durable, wpc, reading, handles,
                        dropping, table, next_table>>
         /\ txn'.created = txn.created /\ txn'.releasing = txn.releasing
         /\ txn'.building = txn.building
         /\ txn.deleted \subseteq txn'.deleted
         /\ txn'.deleted \subseteq table \cup txn.created \cup txn.deleted
<1>1. txn \in SavepointTransactionState
  BY DEF TypeOK
<1>2. ASSUME NEW row \in View, delete_persistent_savepoint(w, row)
      PROVE  /\ txn'.created = txn.created /\ txn'.releasing = txn.releasing
             /\ txn'.building = txn.building
             /\ txn.deleted \subseteq txn'.deleted
             /\ txn'.deleted \subseteq table \cup txn.created \cup txn.deleted
  BY <1>1, <1>2, Zenon
     DEF delete_persistent_savepoint, SavepointTransactionState, View
<1>3. ASSUME NEW sp \in SavepointId, restore_savepoint(w, sp)
      PROVE  /\ txn'.created = txn.created /\ txn'.releasing = txn.releasing
             /\ txn'.building = txn.building
             /\ txn.deleted \subseteq txn'.deleted
             /\ txn'.deleted \subseteq table \cup txn.created \cup txn.deleted
  BY <1>1, <1>3, Zenon DEF restore_savepoint, SavepointTransactionState, View
<1>. QED
  BY <1>2, <1>3, Zenon DEF delete_persistent_savepoint, restore_savepoint

\* ReleaseInvalidate makes a row invalid ...
LEMMA ReleaseInvalidateFields ==
  ASSUME TypeOK, NEW w \in Writers, NEW row, ReleaseInvalidate(w, row)
  PROVE  /\ \/ wpc[w] = "applying" /\ row \in txn.deleted
            \/ wpc[w] = "aborting" /\ row \in txn.created
         /\ UNCHANGED <<latest, durable, wpc, reading, handles, dropping, table,
                        next_table>>
         /\ tracker'.next_savepoint_id = tracker.next_savepoint_id
         /\ tracker'.valid_savepoints =
              {v \in tracker.valid_savepoints : v[1] # row[1]}
         /\ tracker'.live_read_transactions = tracker.live_read_transactions
         /\ tracker'.pending_non_durable_commits =
              tracker.pending_non_durable_commits
         /\ txn'.created = txn.created /\ txn'.deleted = txn.deleted
         /\ txn'.releasing = {row} /\ txn'.building = txn.building
<1>1. tracker \in State /\ txn \in SavepointTransactionState
  BY DEF TypeOK
<1>2. /\ tracker'.next_savepoint_id = tracker.next_savepoint_id
      /\ tracker'.valid_savepoints =
           {v \in tracker.valid_savepoints : v[1] # row[1]}
      /\ tracker'.live_read_transactions = tracker.live_read_transactions
      /\ tracker'.pending_non_durable_commits =
           tracker.pending_non_durable_commits
  BY <1>1 DEF ReleaseInvalidate, invalidate_savepoints, State
<1>3. /\ txn'.created = txn.created /\ txn'.deleted = txn.deleted
      /\ txn'.releasing = {row} /\ txn'.building = txn.building
  BY <1>1 DEF ReleaseInvalidate, SavepointTransactionState
<1>. QED
  BY <1>2, <1>3, Zenon DEF ReleaseInvalidate

\* ... and ReleaseReference gives its reference back.
LEMMA ReleaseReferenceFields ==
  ASSUME TypeOK, NEW w \in Writers, NEW row, ReleaseReference(w, row)
  PROVE  /\ wpc[w] \in {"applying", "aborting"} /\ row \in txn.releasing
         /\ UNCHANGED <<latest, durable, wpc, reading, handles, dropping, table,
                        next_table>>
         /\ tracker' = deallocate_read_transaction(tracker, row[2])
         /\ tracker'.next_savepoint_id = tracker.next_savepoint_id
         /\ tracker'.valid_savepoints = tracker.valid_savepoints
         /\ txn'.created = txn.created \ {row}
         /\ txn'.deleted = txn.deleted \ {row}
         /\ txn'.releasing = {} /\ txn'.building = txn.building
<1>1. tracker \in State /\ txn \in SavepointTransactionState
  BY DEF TypeOK
<1>2. /\ tracker'.next_savepoint_id = tracker.next_savepoint_id
      /\ tracker'.valid_savepoints = tracker.valid_savepoints
  BY <1>1 DEF ReleaseReference, deallocate_read_transaction, State
<1>3. /\ txn'.created = txn.created \ {row} /\ txn'.deleted = txn.deleted \ {row}
      /\ txn'.releasing = {} /\ txn'.building = txn.building
  BY <1>1 DEF ReleaseReference, SavepointTransactionState
<1>. QED
  BY <1>2, <1>3 DEF ReleaseReference

\* Dropping a handle has the same two steps.
LEMMA DropFields ==
  ASSUME TypeOK, NEW row, DropInvalidate(row) \/ DropRelease(row)
  PROVE  /\ UNCHANGED <<latest, durable, wpc, txn, reading, table, next_table>>
         /\ tracker'.next_savepoint_id = tracker.next_savepoint_id
         /\ tracker'.valid_savepoints \subseteq tracker.valid_savepoints
         /\ DropInvalidate(row) =>
              /\ \A v \in tracker'.valid_savepoints : v[1] # row[1]
              /\ \A v \in tracker.valid_savepoints :
                   v[1] # row[1] => v \in tracker'.valid_savepoints
              /\ tracker'.live_read_transactions = tracker.live_read_transactions
              /\ tracker'.pending_non_durable_commits =
                   tracker.pending_non_durable_commits
         /\ DropRelease(row) =>
              tracker'.valid_savepoints = tracker.valid_savepoints
<1>1. tracker \in State
  BY DEF TypeOK
<1>2. CASE DropInvalidate(row)
  BY <1>1, <1>2 DEF DropInvalidate, DropRelease, invalidate_savepoints,
                    deallocate_read_transaction, State
<1>3. CASE DropRelease(row)
  BY <1>1, <1>3 DEF DropInvalidate, DropRelease, invalidate_savepoints,
                    deallocate_read_transaction, State
<1>. QED
  BY <1>2, <1>3

\* The end of apply_on_commit forgets the rows of the transaction.
LEMMA ApplyFields ==
  ASSUME TypeOK, NEW w \in Writers, ApplyInvalidated(w)
  PROVE  /\ wpc[w] = "applying" /\ txn.deleted = {} /\ txn.releasing = {}
         /\ UNCHANGED <<latest, durable, reading, handles, dropping, table,
                        next_table>>
         /\ wpc'[w] \in {"epilogue", "ending"}
         /\ \A v \in Writers : v # w => wpc'[v] = wpc[v]
         /\ tracker'.next_savepoint_id = tracker.next_savepoint_id
         /\ tracker'.valid_savepoints \subseteq tracker.valid_savepoints
         /\ tracker'.live_read_transactions = tracker.live_read_transactions
         /\ tracker'.pending_non_durable_commits =
              tracker.pending_non_durable_commits
         /\ txn'.created = {} /\ txn'.deleted = {} /\ txn'.releasing = {}
         /\ txn'.building = txn.building
<1>1. tracker \in State /\ txn \in SavepointTransactionState
  BY DEF TypeOK
<1>2. /\ tracker'.next_savepoint_id = tracker.next_savepoint_id
      /\ tracker'.valid_savepoints \subseteq tracker.valid_savepoints
      /\ tracker'.live_read_transactions = tracker.live_read_transactions
      /\ tracker'.pending_non_durable_commits =
           tracker.pending_non_durable_commits
  BY <1>1 DEF ApplyInvalidated, invalidate_savepoints, State
<1>3. /\ txn'.created = {} /\ txn'.deleted = {} /\ txn'.releasing = {}
      /\ txn'.building = txn.building
  BY <1>1 DEF ApplyInvalidated, SavepointTransactionState
<1>4. /\ wpc'[w] \in {"epilogue", "ending"}
      /\ \A v \in Writers : v # w => wpc'[v] = wpc[v]
  BY Ids DEF ApplyInvalidated
<1>. QED
  BY <1>2, <1>3, <1>4 DEF ApplyInvalidated

\* An abort forgets the rows to delete.
LEMMA AbortFields ==
  ASSUME TypeOK, NEW w \in Writers, Abort(w)
  PROVE  /\ wpc[w] = "live" /\ txn.building.stage = "none"
         /\ UNCHANGED <<tracker, latest, durable, reading, handles, dropping,
                        table, next_table>>
         /\ txn'.created = txn.created /\ txn'.deleted = {}
         /\ txn'.releasing = txn.releasing /\ txn'.building = txn.building
BY DEF Abort, TypeOK, SavepointTransactionState

\* A new write transaction has no savepoints.
LEMMA StartFields ==
  ASSUME TypeOK, NEW w \in Writers, StartWrite(w)
  PROVE  /\ tracker.live_write_transaction = NoTxn
         /\ UNCHANGED <<latest, durable, reading, handles, dropping, table,
                        next_table>>
         /\ tracker'.next_savepoint_id = tracker.next_savepoint_id
         /\ tracker'.valid_savepoints = tracker.valid_savepoints
         /\ tracker'.live_read_transactions = tracker.live_read_transactions
         /\ tracker'.pending_non_durable_commits =
              tracker.pending_non_durable_commits
         /\ txn'.created = {} /\ txn'.deleted = {} /\ txn'.releasing = {}
         /\ txn'.building = NoSavepoint
<1>1. tracker \in State
  BY DEF TypeOK
<1>. QED
  BY <1>1 DEF StartWrite, start_write_transaction, EmptyTxn, State

-----------------------------------------------------------------------------
(* Unique and ordered savepoints *)

\* Ids of rows and of transactions are numbers, which the provers need in
\* order to compare them.
LEMMA RowIds ==
  ASSUME TypeOK
  PROVE  /\ \A u \in Settled : u[1] \in Nat /\ u[2] \in Nat
         /\ latest \in Nat /\ durable \in Nat /\ next_table \in Nat
         /\ tracker.next_savepoint_id \in Nat
<1>1. Settled \in SUBSET Row
  BY FieldTypes DEF TypeOK, Settled
<1>2. /\ latest \in TransactionId /\ durable \in TransactionId /\ next_table \in Nat
      /\ tracker.next_savepoint_id \in SavepointId
  BY FieldTypes DEF TypeOK
<1>. QED
  BY <1>1, <1>2, TrackerBounds DEF Row, SavepointId, TransactionId

\* Rows survives when savepoints change hands or disappear and ids grow.
LEMMA RowsShrink ==
  ASSUME TypeOK, TypeOK', Rows,
         handles' \cup dropping' \subseteq handles \cup dropping,
         handles' \cap dropping' = {},
         table' \cup txn'.created \cup txn'.deleted
           \subseteq table \cup txn.created \cup txn.deleted,
         table' = table, next_table' = next_table, txn'.created \subseteq txn.created,
         table' \ txn'.created \subseteq table \ txn.created \/ txn'.created = {},
         tracker.next_savepoint_id <= tracker'.next_savepoint_id,
         latest <= latest', durable <= durable'
  PROVE  Rows'
<1>1. Settled' \subseteq Settled
  BY DEF Settled
<1>2. /\ \A u \in Settled : u[1] \in Nat /\ u[2] \in Nat
      /\ latest \in Nat /\ latest' \in Nat
      /\ durable \in Nat /\ durable' \in Nat
      /\ tracker.next_savepoint_id \in Nat /\ tracker'.next_savepoint_id \in Nat
  <2>1. latest' \in Nat /\ durable' \in Nat /\ tracker'.next_savepoint_id \in Nat
    BY TrackerBounds DEF TypeOK, State, TransactionId, SavepointId
  <2>. QED
    BY <2>1, RowIds
<1>3. \A u, v \in Settled' : u[1] = v[1] => u = v
  BY <1>1 DEF Rows
<1>4. \A u, v \in Settled' : u[1] < v[1] => u[2] <= v[2]
  BY <1>1 DEF Rows
<1>5. \A u \in Settled' : u[1] <= tracker'.next_savepoint_id /\ u[2] <= latest'
  BY <1>1, <1>2 DEF Rows
<1>6. (handles' \cup dropping') \cap (table' \cup txn'.created \cup txn'.deleted) = {}
  BY DEF Rows
<1>7. \A u \in table' : u[1] <= next_table' /\ u[2] <= durable'
  BY <1>2 DEF Rows, Settled
<1>8. \A u \in table' \ txn'.created : \A v \in txn'.created : u[1] < v[1]
  BY DEF Rows
<1>. QED
  BY <1>3, <1>4, <1>5, <1>6, <1>7, <1>8 DEF Rows

\* Rows gains the savepoint under construction.
LEMMA RowsGrow ==
  ASSUME TypeOK, Rows, Newest, txn.building.stage = "allocated",
         NEW b, b = <<txn.building.sp, txn.building.id>>,
         \/ handles' = handles \cup {b} /\ txn'.created = txn.created
         \/ handles' = handles /\ txn'.created = txn.created \cup {b},
         txn'.deleted = txn.deleted,
         UNCHANGED <<dropping, table, next_table, latest, durable>>,
         tracker'.next_savepoint_id = tracker.next_savepoint_id
  PROVE  Rows'
<1>1. Settled' = Settled \cup {b}
  BY DEF Settled
<1>2. /\ \A u \in Settled : u[1] \in Nat /\ u[2] \in Nat
      /\ b[1] \in Nat /\ b[2] \in Nat /\ latest \in Nat
      /\ tracker.next_savepoint_id \in Nat
  BY RowIds, FieldTypes, TrackerBounds DEF SavepointId, TransactionId
<1>3. /\ \A u \in Settled : u[1] < b[1] /\ u[2] <= b[2]
      /\ b[1] <= tracker.next_savepoint_id /\ b[2] <= latest
  BY DEF Newest
<1>4. b \notin Settled
  BY <1>2, <1>3
<1>5. \A u, v \in Settled' : u[1] = v[1] => u = v
  BY <1>1, <1>2, <1>3 DEF Rows
<1>6. \A u, v \in Settled' : u[1] < v[1] => u[2] <= v[2]
  BY <1>1, <1>2, <1>3 DEF Rows
<1>7. \A u \in Settled' : u[1] <= tracker'.next_savepoint_id /\ u[2] <= latest'
  BY <1>1, <1>2, <1>3 DEF Rows
<1>8. /\ handles' \cap dropping' = {}
      /\ (handles' \cup dropping') \cap (table' \cup txn'.created \cup txn'.deleted) = {}
  BY <1>4 DEF Rows, Settled
<1>9. \A u \in table' : u[1] <= next_table' /\ u[2] <= durable'
  BY DEF Rows
<1>10. \A u \in table' \ txn'.created : \A v \in txn'.created : u[1] < v[1]
  BY <1>3 DEF Rows, Settled
<1>. QED
  BY <1>5, <1>6, <1>7, <1>8, <1>9, <1>10 DEF Rows

\* Rows survives steps that leave the savepoints where they are.
LEMMA RowsKept ==
  ASSUME TypeOK, TypeOK', Rows, SavepointsKept, latest <= latest'
  PROVE  Rows'
<1>1. /\ UNCHANGED <<durable, handles, dropping, table, next_table>>
      /\ tracker'.next_savepoint_id = tracker.next_savepoint_id
      /\ txn'.created = txn.created /\ txn'.deleted = txn.deleted
  BY DEF SavepointsKept
<1>2. handles \cap dropping = {}
  BY DEF Rows
<1>3. durable <= durable' /\ tracker.next_savepoint_id <= tracker'.next_savepoint_id
  BY <1>1, RowIds
<1>. QED
  BY <1>1, <1>2, <1>3, RowsShrink

\* Rows is preserved by every step.
LEMMA RowsStep ==
  ASSUME TypeOK, TypeOK', Phases, RowPhases, Rows, Newest, [Next]_vars
  PROVE  Rows'
<1>1. /\ latest <= latest /\ durable <= durable
      /\ tracker.next_savepoint_id <= tracker.next_savepoint_id
      /\ tracker.next_savepoint_id <= tracker.next_savepoint_id + 1
      /\ handles \cap dropping = {}
  BY RowIds DEF Rows
<1>2. CASE ReaderStep
  <2>1. SavepointsKept /\ latest' = latest
    BY <1>2, SavepointsKeptStep, WriterKeptStep DEF WriterKept
  <2>. QED
    BY <1>1, <2>1, RowsKept
<1>3. ASSUME NEW w \in Writers, WriterStep(w) PROVE Rows'
  <2>1. SavepointsKept
    BY <1>3, SavepointsKeptStep
  <2>2. latest <= latest'
    <3>1. CASE MemNonDurableCommit(w)
      BY <3>1, Ids DEF MemNonDurableCommit, Phases, PhaseIds
    <3>2. CASE EpiloguePublish(w)
      BY <3>2, Ids DEF EpiloguePublish, Phases, PhaseIds
    <3>3. CASE ~(MemNonDurableCommit(w) \/ EpiloguePublish(w))
      BY <1>1, <1>3, <3>3
         DEF WriterStep, Wait, SpuriousWakeup, EndWrite, set_durability,
             ClearPending, RegisterNonDurable, EpilogueSkip, EpilogueReserve,
             EpilogueRegister, AbortDone
    <3>. QED
      BY <3>1, <3>2, <3>3
  <2>. QED
    BY <2>1, <2>2, RowsKept
<1>4. ASSUME NEW w \in Writers, StartWrite(w) PROVE Rows'
  <2>1. txn.created = {} /\ txn.deleted = {}
    BY <1>4, StartFields DEF Phases, Exclusive, RowPhases, Holding, Owning
  <2>. QED
    BY <1>1, <1>4, <2>1, StartFields, RowsShrink
<1>5. ASSUME NEW w \in Writers, SavepointRegister(w) PROVE Rows'
  BY <1>1, <1>5, RegisterFields, RowsShrink
<1>6. ASSUME NEW w \in Writers, SavepointAllocate(w) PROVE Rows'
  BY <1>1, <1>6, AllocateFields, RowsShrink
<1>7. ASSUME NEW w \in Writers, SavepointReturn(w) PROVE Rows'
  BY <1>7, ReturnFields, RowsGrow, Zenon
<1>8. ASSUME NEW w \in Writers, SavepointPersist(w) PROVE Rows'
  BY <1>8, PersistFields, RowsGrow, Zenon
<1>9. ASSUME NEW w \in Writers,
             \/ \E row \in View : delete_persistent_savepoint(w, row)
             \/ \E sp \in SavepointId : restore_savepoint(w, sp)
      PROVE  Rows'
  BY <1>1, <1>9, DeleteFields, RowsShrink
<1>10. ASSUME NEW w \in Writers, NEW row \in txn.created \cup txn.deleted,
              ReleaseInvalidate(w, row)
       PROVE  Rows'
  BY <1>1, <1>10, ReleaseInvalidateFields, RowsShrink
<1>11. ASSUME NEW w \in Writers, NEW row \in txn.created \cup txn.deleted,
              ReleaseReference(w, row)
       PROVE  Rows'
  <2>1. row \notin table
    BY <1>11, ReleaseReferenceFields DEF RowPhases, PhaseRows
  <2>. QED
    BY <1>1, <1>11, <2>1, ReleaseReferenceFields, RowsShrink
<1>12. ASSUME NEW w \in Writers, ApplyInvalidated(w) PROVE Rows'
  BY <1>1, <1>12, ApplyFields, RowsShrink
<1>13. ASSUME NEW w \in Writers, Abort(w) PROVE Rows'
  BY <1>1, <1>13, AbortFields, RowsShrink
<1>14. ASSUME NEW row \in handles, DropInvalidate(row) PROVE Rows'
  <2>1. /\ handles' \cup dropping' \subseteq handles \cup dropping
        /\ handles' \cap dropping' = {}
    BY <1>1, <1>14 DEF DropInvalidate
  <2>. QED
    BY <1>1, <1>14, <2>1, DropFields, RowsShrink
<1>15. ASSUME NEW row \in dropping, DropRelease(row) PROVE Rows'
  <2>1. /\ handles' \cup dropping' \subseteq handles \cup dropping
        /\ handles' \cap dropping' = {}
    BY <1>1, <1>15 DEF DropRelease
  <2>. QED
    BY <1>1, <1>15, <2>1, DropFields, RowsShrink
<1>16. ASSUME NEW w \in Writers, MemCommit(w) PROVE Rows'
  <2>1. /\ table' = (table \cup txn.created) \ txn.deleted
        /\ latest' = tracker.live_write_transaction /\ durable' = latest'
        /\ UNCHANGED <<tracker, txn, handles, dropping>>
    BY <1>16 DEF MemCommit, View
  <2>2. Settled' = Settled
    BY <2>1 DEF Settled
  <2>3. latest < latest' /\ latest' \in Nat
    BY <1>16, <2>1, Ids DEF MemCommit, Phases, PhaseIds
  <2>4. \A u \in Settled' : u[1] <= tracker'.next_savepoint_id /\ u[2] <= latest'
    BY <2>1, <2>2, <2>3, RowIds DEF Rows
  <2>5. \A u \in table' : u[1] <= next_table'
    <3>1. CASE txn.created = {} /\ next_table' = next_table
      BY <2>1, <3>1 DEF Rows
    <3>2. ASSUME NEW row \in txn.created,
                 \A other \in txn.created : other[1] <= row[1],
                 next_table' = row[1] + 1
          PROVE  \A u \in table' : u[1] <= next_table'
      BY <2>1, <3>2, RowIds DEF Rows, Settled
    <3>. QED
      BY <1>16, <3>1, <3>2 DEF MemCommit
  <2>6. \A u \in table' : u[2] <= durable'
    BY <2>1, <2>2, <2>4 DEF Settled
  <2>7. \A u \in table' \ txn'.created : \A v \in txn'.created : u[1] < v[1]
    BY <2>1 DEF Rows
  <2>8. (handles' \cup dropping') \cap (table' \cup txn'.created \cup txn'.deleted) = {}
    BY <2>1 DEF Rows
  <2>. QED
    BY <2>1, <2>2, <2>4, <2>5, <2>6, <2>7, <2>8 DEF Rows
<1>17. ASSUME NEW repaired \in BOOLEAN, Reopen(repaired) PROVE Rows'
  <2>1. Settled' = table /\ table \subseteq Settled
    BY <1>17, ReopenedIds DEF Settled
  <2>2. \A u \in table : u[1] <= next_table /\ u[2] <= durable'
    BY <1>17, <2>1, RowIds, ReopenedIds DEF Rows
  <2>. QED
    BY <1>17, <2>1, <2>2, ReopenedIds DEF Rows
<1>. QED
  BY <1>2, <1>3, <1>4, <1>5, <1>6, <1>7, <1>8, <1>9, <1>10, <1>11, <1>12, <1>13,
     <1>14, <1>15, <1>16, <1>17, NextCases, Zenon DEF SavepointStep

-----------------------------------------------------------------------------
(* The savepoint under construction *)

\* Newest survives when no savepoint is under construction afterwards.
LEMMA NewestNone ==
  ASSUME txn'.building.stage = "none"
  PROVE  Newest'
BY DEF Newest

\* Newest survives when nothing it mentions grows.
LEMMA NewestKept ==
  ASSUME Newest, Settled' \subseteq Settled, txn'.building = txn.building,
         tracker'.next_savepoint_id = tracker.next_savepoint_id,
         latest' = latest,
         \A w \in Writers : wpc[w] = "live" => wpc'[w] = "live"
  PROVE  Newest'
BY DEF Newest

\* Savepoints are under construction only while the user works.
LEMMA NotBuilding ==
  ASSUME Phases, Newest, NEW w \in Writers, wpc[w] \in Owning \ {"live"}
  PROVE  txn.building.stage = "none"
<1>1. \A v \in Writers : wpc[v] # "live"
  BY DEF Phases, Exclusive, Owning
<1>. QED
  BY <1>1 DEF Newest

\* Newest is preserved by every step.
LEMMA NewestStep ==
  ASSUME TypeOK, Phases, Rows, Newest, [Next]_vars
  PROVE  Newest'
<1>1. CASE ReaderStep
  <2>1. SavepointsKept /\ WriterKept
    BY <1>1, SavepointsKeptStep, WriterKeptStep
  <2>2. Settled' = Settled
    BY <2>1 DEF SavepointsKept, Settled
  <2>. QED
    BY <2>1, <2>2, NewestKept DEF SavepointsKept, WriterKept
<1>2. ASSUME NEW w \in Writers, WriterStep(w) PROVE Newest'
  <2>1. SavepointsKept
    BY <1>2, SavepointsKeptStep
  <2>2. txn'.building = txn.building
    BY <2>1 DEF SavepointsKept
  <2>3. CASE Wait(w) \/ SpuriousWakeup(w)
    <3>1. Settled' = Settled
      BY <2>1 DEF SavepointsKept, Settled
    <3>2. /\ latest' = latest
          /\ \A v \in Writers : wpc[v] = "live" => wpc'[v] = "live"
      BY <2>3, Ids DEF Wait, SpuriousWakeup, Starting
    <3>. QED
      BY <2>1, <3>1, <3>2, NewestKept DEF SavepointsKept
  <2>4. CASE MemNonDurableCommit(w)
             \/ \E durability \in {"Immediate", "None"} :
                  set_durability(w, durability)
    BY <2>2, <2>4, NewestNone DEF MemNonDurableCommit, set_durability
  <2>5. CASE wpc[w] \in Owning \ {"live"}
    BY <2>2, <2>5, NotBuilding, NewestNone
  <2>. QED
    BY <1>2, <2>3, <2>4, <2>5
       DEF WriterStep, EndWrite, ClearPending, RegisterNonDurable, EpilogueSkip,
           EpiloguePublish, EpilogueReserve, EpilogueRegister, AbortDone, Owning
<1>3. ASSUME NEW w \in Writers, StartWrite(w) PROVE Newest'
  BY <1>3, StartFields, NewestNone DEF NoSavepoint
<1>4. ASSUME NEW w \in Writers, SavepointRegister(w) PROVE Newest'
  <2>1. Settled' = Settled
    BY <1>4, RegisterFields DEF Settled
  <2>2. \A u \in Settled : u[1] < tracker.next_savepoint_id + 1 /\ u[2] <= latest
    BY RowIds DEF Rows
  <2>. QED
    BY <1>4, <2>1, <2>2, RegisterFields, RowIds DEF Newest
<1>5. ASSUME NEW w \in Writers, SavepointAllocate(w) PROVE Newest'
  <2>1. Settled' = Settled
    BY <1>5, AllocateFields DEF Settled
  <2>. QED
    BY <1>5, <2>1, AllocateFields, RowIds DEF Newest
<1>6. ASSUME NEW w \in Writers, SavepointReturn(w) PROVE Newest'
  BY <1>6, ReturnFields, NewestNone DEF NoSavepoint
<1>7. ASSUME NEW w \in Writers, SavepointPersist(w) PROVE Newest'
  BY <1>7, PersistFields, NewestNone DEF NoSavepoint
<1>8. ASSUME NEW w \in Writers,
             \/ \E row \in View : delete_persistent_savepoint(w, row)
             \/ \E sp \in SavepointId : restore_savepoint(w, sp)
      PROVE  Newest'
  <2>1. Settled' \subseteq Settled
    BY <1>8, DeleteFields DEF Settled
  <2>. QED
    BY <1>8, <2>1, DeleteFields, NewestKept
<1>9. ASSUME NEW w \in Writers, NEW row \in txn.created \cup txn.deleted,
             ReleaseInvalidate(w, row) \/ ReleaseReference(w, row)
      PROVE  Newest'
  <2>1. wpc[w] \in Owning \ {"live"} /\ txn'.building = txn.building
    BY <1>9, ReleaseInvalidateFields, ReleaseReferenceFields DEF Owning
  <2>. QED
    BY <2>1, NotBuilding, NewestNone
<1>10. ASSUME NEW w \in Writers, ApplyInvalidated(w) PROVE Newest'
  <2>1. wpc[w] \in Owning \ {"live"} /\ txn'.building = txn.building
    BY <1>10, ApplyFields DEF Owning
  <2>. QED
    BY <2>1, NotBuilding, NewestNone
<1>11. ASSUME NEW w \in Writers, Abort(w) \/ MemCommit(w) PROVE Newest'
  BY <1>11, AbortFields, NewestNone DEF MemCommit
<1>12. ASSUME NEW row, DropInvalidate(row) \/ DropRelease(row) PROVE Newest'
  <2>1. Settled' \subseteq Settled
    BY <1>12, DropFields DEF DropInvalidate, DropRelease, Settled
  <2>. QED
    BY <1>12, <2>1, DropFields, NewestKept
<1>13. ASSUME NEW repaired \in BOOLEAN, Reopen(repaired) PROVE Newest'
  BY <1>13, ReopenedIds, NewestNone
<1>. QED
  BY <1>1, <1>2, <1>3, <1>4, <1>5, <1>6, <1>7, <1>8, <1>9, <1>10, <1>11, <1>12,
     <1>13, NextCases, Zenon DEF SavepointStep

-----------------------------------------------------------------------------
(* References held by savepoints *)

\* The steps that create or release a reference of a savepoint.
ReferenceStep ==
  \/ \E w \in Writers :
       \/ SavepointRegister(w)
       \/ \E row \in txn.created \cup txn.deleted : ReleaseReference(w, row)
  \/ \E row \in dropping : DropRelease(row)
  \/ \E repaired \in BOOLEAN : Reopen(repaired)

\* All other steps move references from one holder to another at most.
LEMMA RefsKept ==
  ASSUME TypeOK, Phases, RowPhases, Newest, [Next]_vars, ~ReferenceStep
  PROVE  SavepointRefs' = SavepointRefs
<1> USE DEF SavepointRefs, Building
<1>1. CASE ReaderStep \/ \E w \in Writers : WriterStep(w)
  BY <1>1, SavepointsKeptStep DEF SavepointsKept
<1>2. ASSUME NEW w \in Writers, StartWrite(w)
      PROVE  SavepointRefs' = SavepointRefs
  <2>1. \A v \in Writers : wpc[v] \notin Owning
    BY <1>2, StartFields DEF Phases, Exclusive
  <2>2. txn.created = {} /\ txn.deleted = {} /\ txn.building.stage = "none"
    BY <2>1 DEF RowPhases, Holding, Owning, Newest
  <2>. QED
    BY <1>2, <2>2, StartFields DEF NoSavepoint
<1>3. ASSUME NEW w \in Writers, SavepointAllocate(w)
      PROVE  SavepointRefs' = SavepointRefs
  BY <1>3, AllocateFields
<1>4. ASSUME NEW w \in Writers, SavepointReturn(w)
      PROVE  SavepointRefs' = SavepointRefs
  BY <1>4, ReturnFields DEF NoSavepoint
<1>5. ASSUME NEW w \in Writers, SavepointPersist(w)
      PROVE  SavepointRefs' = SavepointRefs
  BY <1>5, PersistFields DEF NoSavepoint
<1>6. ASSUME NEW w \in Writers,
             \/ \E row \in View : delete_persistent_savepoint(w, row)
             \/ \E sp \in SavepointId : restore_savepoint(w, sp)
      PROVE  SavepointRefs' = SavepointRefs
  BY <1>6, DeleteFields
<1>7. ASSUME NEW w \in Writers, NEW row \in txn.created \cup txn.deleted,
             ReleaseInvalidate(w, row)
      PROVE  SavepointRefs' = SavepointRefs
  BY <1>7, ReleaseInvalidateFields
<1>8. ASSUME NEW w \in Writers, ApplyInvalidated(w)
      PROVE  SavepointRefs' = SavepointRefs
  BY <1>8, ApplyFields DEF RowPhases, PhaseRows
<1>9. ASSUME NEW w \in Writers, Abort(w) PROVE SavepointRefs' = SavepointRefs
  BY <1>9, AbortFields DEF RowPhases, PhaseRows
<1>10. ASSUME NEW w \in Writers, MemCommit(w)
       PROVE  SavepointRefs' = SavepointRefs
  BY <1>10 DEF MemCommit, View
<1>11. ASSUME NEW row \in handles, DropInvalidate(row)
       PROVE  SavepointRefs' = SavepointRefs
  BY <1>11 DEF DropInvalidate
<1>. QED
  BY <1>1, <1>2, <1>3, <1>4, <1>5, <1>6, <1>7, <1>8, <1>9, <1>10, <1>11,
     NextCases, Zenon DEF SavepointStep, ReferenceStep

\* The new savepoint holds a new reference.
LEMMA RefsAdded ==
  ASSUME TypeOK, Rows, NEW w \in Writers, SavepointRegister(w)
  PROVE  \E b \in Row : /\ b[2] = latest /\ b \notin SavepointRefs
                        /\ SavepointRefs' = SavepointRefs \cup {b}
<1>1. PICK b : b = <<tracker.next_savepoint_id + 1, latest>>
  BY Zenon
<1>2. b \in Row
  <2>1. tracker.next_savepoint_id + 1 \in SavepointId
    BY RowIds, TrackerBounds DEF SavepointRegister, SavepointId
  <2>. QED
    BY <1>1, <2>1 DEF Row, TypeOK
<1>3. b \notin Settled
  BY <1>1, RowIds DEF Rows
<1>4. SavepointRefs = Settled
  BY DEF SavepointRegister, SavepointRefs, Settled, Building
<1>5. SavepointRefs' = SavepointRefs \cup {b}
  BY <1>1, <1>4, RegisterFields DEF SavepointRefs, Building, Settled
<1>. QED
  BY <1>1, <1>2, <1>3, <1>4, <1>5

\* A reference that is given back is gone.
LEMMA RefsRemoved ==
  ASSUME TypeOK, Phases, RowPhases, Rows, Newest, NEW row,
         \/ row \in dropping /\ DropRelease(row)
         \/ \E w \in Writers : ReleaseReference(w, row)
  PROVE  /\ row \in SavepointRefs
         /\ SavepointRefs' = SavepointRefs \ {row}
<1>1. CASE row \in dropping /\ DropRelease(row)
  <2>1. row \notin handles \cup table \cup txn.created \cup txn.deleted
    BY <1>1 DEF Rows
  <2>2. row \notin Building
    <3>1. row \in Settled
      BY <1>1 DEF Settled
    <3>. QED
      BY <3>1, RowIds DEF Newest, Building
  <2>3. Building' = Building
    BY <1>1 DEF DropRelease, Building
  <2>. QED
    BY <1>1, <2>1, <2>2, <2>3 DEF DropRelease, SavepointRefs
<1>2. ASSUME NEW w \in Writers, ReleaseReference(w, row)
      PROVE  /\ row \in SavepointRefs
             /\ SavepointRefs' = SavepointRefs \ {row}
  <2>1. row \in txn.created \cup txn.deleted /\ row \notin table
    BY <1>2, ReleaseReferenceFields DEF RowPhases, PhaseRows
  <2>2. row \notin handles \cup dropping
    BY <2>1 DEF Rows
  <2>3. Building = {} /\ Building' = {}
    <3>1. wpc[w] \in Owning \ {"live"} /\ txn'.building = txn.building
      BY <1>2, ReleaseReferenceFields DEF Owning
    <3>. QED
      BY <3>1, NotBuilding DEF Building
  <2>. QED
    BY <1>2, <2>1, <2>2, <2>3, ReleaseReferenceFields DEF SavepointRefs
<1>. QED
  BY <1>1, <1>2

\* A reopened database has the references of its persistent savepoints.
LEMMA RefsReopened ==
  ASSUME TypeOK, NEW repaired \in BOOLEAN, Reopen(repaired)
  PROVE  SavepointRefs' = table
BY ReopenedIds DEF SavepointRefs, Building

-----------------------------------------------------------------------------
(* Valid savepoints *)

\* Valid survives when valid_savepoints keeps its references and no other
\* savepoint starts to be released.
LEMMA ValidShrink ==
  ASSUME Valid,
         tracker'.valid_savepoints \subseteq tracker.valid_savepoints,
         tracker'.valid_savepoints \subseteq SavepointRefs',
         dropping' \cup txn'.releasing \subseteq dropping \cup txn.releasing,
         txn'.building.stage = "allocated" =>
           /\ txn'.building = txn.building
           /\ tracker'.valid_savepoints = tracker.valid_savepoints
  PROVE  Valid'
BY DEF Valid

\* Valid is preserved when references are created or released.
LEMMA ValidReferenceStep ==
  ASSUME TypeOK, Phases, RowPhases, Rows, Newest, Valid, ReferenceStep
  PROVE  Valid'
<1>1. tracker.valid_savepoints \subseteq SavepointRefs
  BY DEF Valid
<1>2. ASSUME NEW w \in Writers, SavepointRegister(w) PROVE Valid'
  <2>1. SavepointRefs \subseteq SavepointRefs'
    BY <1>2, RefsAdded
  <2>2. /\ txn'.releasing = txn.releasing /\ dropping' = dropping
        /\ txn'.building.stage = "registered"
        /\ tracker'.valid_savepoints = tracker.valid_savepoints
    BY <1>2, RegisterFields
  <2>. QED
    BY <1>1, <2>1, <2>2, ValidShrink
<1>3. ASSUME NEW w \in Writers, NEW row \in txn.created \cup txn.deleted,
             ReleaseReference(w, row)
      PROVE  Valid'
  <2>1. SavepointRefs' = SavepointRefs \ {row}
    BY <1>3, RefsRemoved
  <2>2. /\ txn'.releasing = {} /\ dropping' = dropping
        /\ txn'.building = txn.building
        /\ tracker'.valid_savepoints = tracker.valid_savepoints
    BY <1>3, ReleaseReferenceFields
  <2>3. row \notin tracker.valid_savepoints
    BY <1>3, ReleaseReferenceFields DEF Valid
  <2>. QED
    BY <1>1, <2>1, <2>2, <2>3, ValidShrink
<1>4. ASSUME NEW row \in dropping, DropRelease(row) PROVE Valid'
  <2>1. SavepointRefs' = SavepointRefs \ {row}
    BY <1>4, RefsRemoved
  <2>2. txn' = txn /\ tracker'.valid_savepoints = tracker.valid_savepoints
    BY <1>4, DropFields
  <2>3. row \notin tracker.valid_savepoints /\ dropping' \subseteq dropping
    BY <1>4 DEF Valid, DropRelease
  <2>. QED
    BY <1>1, <2>1, <2>2, <2>3, ValidShrink
<1>5. ASSUME NEW repaired \in BOOLEAN, Reopen(repaired) PROVE Valid'
  BY <1>5, ReopenedIds, RefsReopened DEF Valid
<1>. QED
  BY <1>2, <1>3, <1>4, <1>5 DEF ReferenceStep

\* Valid is preserved by every step.
LEMMA ValidStep ==
  ASSUME TypeOK, Phases, RowPhases, Rows, Newest, Valid, [Next]_vars
  PROVE  Valid'
<1>1. CASE ReferenceStep
  BY <1>1, ValidReferenceStep
<1>2. CASE ~ReferenceStep
  <2>1. SavepointRefs' = SavepointRefs /\ tracker.valid_savepoints \subseteq SavepointRefs
    BY <1>2, RefsKept DEF Valid
  <2>2. CASE ReaderStep \/ \E w \in Writers : WriterStep(w)
    <3>1. SavepointsKept
      BY <2>2, SavepointsKeptStep
    <3>. QED
      BY <2>1, <3>1, ValidShrink DEF SavepointsKept
  <2>3. ASSUME NEW w \in Writers, StartWrite(w) PROVE Valid'
    BY <2>1, <2>3, StartFields, ValidShrink DEF NoSavepoint
  <2>4. ASSUME NEW w \in Writers, SavepointAllocate(w) PROVE Valid'
    <3>1. PICK b : b = <<txn.building.sp, txn.building.id>>
      BY Zenon
    <3>2. /\ wpc[w] = "live" /\ txn.building.stage = "registered"
          /\ txn'.building.sp = txn.building.sp
          /\ txn'.building.id = txn.building.id
          /\ txn'.releasing = txn.releasing /\ dropping' = dropping
      BY <2>4, AllocateFields
    <3>3. tracker'.valid_savepoints = tracker.valid_savepoints \cup {b}
      BY <2>4, <3>1, <3>2, AllocateFields DEF Newest
    <3>4. b \in SavepointRefs
      BY <3>1, <3>2 DEF SavepointRefs, Building
    <3>5. \A u \in dropping \cup txn.releasing : b[1] # u[1]
      <4>1. txn.releasing = {}
        BY <3>2 DEF RowPhases, PhaseRows
      <4>2. \A u \in dropping : u[1] \in Nat /\ u[1] < b[1]
        BY <3>1, <3>2, RowIds DEF Newest, Settled
      <4>. QED
        BY <3>1, <4>1, <4>2, FieldTypes, TrackerBounds DEF SavepointId
    <3>. QED
      BY <2>1, <3>1, <3>2, <3>3, <3>4, <3>5 DEF Valid
  <2>5. ASSUME NEW w \in Writers, SavepointReturn(w) PROVE Valid'
    BY <2>1, <2>5, ReturnFields, ValidShrink DEF NoSavepoint
  <2>6. ASSUME NEW w \in Writers, SavepointPersist(w) PROVE Valid'
    BY <2>1, <2>6, PersistFields, ValidShrink DEF NoSavepoint
  <2>7. ASSUME NEW w \in Writers,
               \/ \E row \in View : delete_persistent_savepoint(w, row)
               \/ \E sp \in SavepointId : restore_savepoint(w, sp)
        PROVE  Valid'
    BY <2>1, <2>7, DeleteFields, ValidShrink
  <2>8. ASSUME NEW w \in Writers, NEW row \in txn.created \cup txn.deleted,
               ReleaseInvalidate(w, row)
        PROVE  Valid'
    <3>1. txn.building.stage = "none"
      BY <2>8, ReleaseInvalidateFields, NotBuilding DEF Owning
    <3>. QED
      BY <2>1, <2>8, <3>1, ReleaseInvalidateFields DEF Valid
  <2>9. ASSUME NEW w \in Writers, ApplyInvalidated(w) PROVE Valid'
    <3>1. txn.building.stage = "none"
      BY <2>9, ApplyFields, NotBuilding DEF Owning
    <3>. QED
      BY <2>1, <2>9, <3>1, ApplyFields, ValidShrink
  <2>10. ASSUME NEW w \in Writers, Abort(w) PROVE Valid'
    BY <2>1, <2>10, AbortFields, ValidShrink
  <2>11. ASSUME NEW w \in Writers, MemCommit(w) PROVE Valid'
    BY <2>1, <2>11, ValidShrink DEF MemCommit
  <2>12. ASSUME NEW row \in handles, DropInvalidate(row) PROVE Valid'
    <3>1. txn.building.stage = "allocated" => row[1] # txn.building.sp
      <4>1. row \in Settled
        BY DEF Settled
      <4>. QED
        BY <4>1, RowIds DEF Newest
    <3>2. txn' = txn /\ dropping' = dropping \cup {row}
      BY <2>12 DEF DropInvalidate
    <3>. QED
      BY <2>1, <2>12, <3>1, <3>2, DropFields DEF Valid
  <2>. QED
    BY <1>2, <2>2, <2>3, <2>4, <2>5, <2>6, <2>7, <2>8, <2>9, <2>10, <2>11,
       <2>12, NextCases, Zenon DEF SavepointStep, ReferenceStep
<1>. QED
  BY <1>1, <1>2

=============================================================================
