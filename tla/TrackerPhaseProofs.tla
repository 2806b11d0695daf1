------------------------ MODULE TrackerPhaseProofs ------------------------
(***************************************************************************)
(* The inductive invariant IInv of TrackerClients, and the proofs that its *)
(* parts about types, phases of writers, pending commits and rows of the   *)
(* write transaction are preserved by every step, for any number of        *)
(* writers, readers, transactions and savepoints.                          *)
(*                                                                         *)
(* IInv joins the type invariant with these parts: Phases says what a      *)
(* writer's phase tells about transaction ids, RowPhases what it tells     *)
(* about the savepoints that the transaction has created and deleted, Rows *)
(* how savepoints are numbered and who holds them, Newest what is known of *)
(* the savepoint under construction, Valid how valid_savepoints relates to *)
(* all of them, Pending what the pending non-durable commits pin, and      *)
(* Counts is RefCountExact.                                                *)
(***************************************************************************)
EXTENDS TrackerClients, FiniteSetTheorems, TLAPS

-----------------------------------------------------------------------------
(* The inductive invariant *)

\* At most one writer owns the write transaction, and only while the tracker
\* says that one is live.
Exclusive ==
  /\ \A v, w \in Writers : wpc[v] \in Owning /\ wpc[w] \in Owning => v = w
  /\ \A w \in Writers :
       wpc[w] \in Owning => tracker.live_write_transaction # NoTxn

\* The ids of transactions, by the phase of the writer.
PhaseIds(w) ==
  LET live == tracker.live_write_transaction
      next == tracker.next_transaction_id
  IN  /\ wpc[w] \in Owning => live + 1 <= MaxTxn
      /\ wpc[w] \in {"live", "aborting"} => latest < live /\ live = next
      /\ wpc[w] \in {"committed", "nondurable", "applying", "epilogue"} =>
           latest = live /\ live = next
      /\ wpc[w] = "published" => latest = live + 1 /\ live = next
      /\ wpc[w] = "reserved" => latest = live + 1 /\ latest = next
      /\ wpc[w] \in {"committed", "epilogue", "published", "reserved"} =>
           txn.durability = "Immediate"
      /\ wpc[w] = "nondurable" => txn.durability = "None"
      /\ wpc[w] \in {"committed", "applying", "epilogue", "published",
                     "reserved"} /\ txn.durability = "Immediate" =>
           durable = live

\* Ids by phase, with the order of the last durable, the last and the next one.
Phases ==
  /\ Exclusive
  /\ \A w \in Writers : PhaseIds(w)
  /\ durable <= latest
  /\ (\A w \in Writers : wpc[w] \notin Owning \ {"ending"}) =>
       latest <= tracker.next_transaction_id

\* Phases in which the transaction may have savepoints to release.
Holding == {"live", "committed", "applying", "aborting"}

\* Rows of SAVEPOINT_TABLE that the write transaction created or deleted, by
\* the phase of the writer.
PhaseRows(w) ==
  /\ wpc[w] = "live" =>
       /\ txn.deleted \subseteq table \cup txn.created
       /\ txn.created \cap table = {}
       /\ txn.releasing = {}
  /\ wpc[w] \in {"committed", "applying"} =>
       /\ txn.created \subseteq table \cup txn.deleted
       /\ txn.deleted \cap table = {}
       /\ txn.releasing \subseteq txn.deleted
  /\ wpc[w] = "committed" => txn.releasing = {}
  /\ wpc[w] = "aborting" =>
       /\ txn.deleted = {}
       /\ txn.created \cap table = {}
       /\ txn.releasing \subseteq txn.created

\* Savepoints that are not under construction.
Settled == handles \cup dropping \cup table \cup txn.created \cup txn.deleted

\* Savepoint ids are unique and ordered like the transactions they pin, and
\* each reference has one holder.
Rows ==
  /\ \A u, v \in Settled : u[1] = v[1] => u = v
  /\ \A u, v \in Settled : u[1] < v[1] => u[2] <= v[2]
  /\ \A u \in Settled : u[1] <= tracker.next_savepoint_id /\ u[2] <= latest
  /\ handles \cap dropping = {}
  /\ (handles \cup dropping) \cap (table \cup txn.created \cup txn.deleted) = {}
  /\ \A u \in table : u[1] <= next_table /\ u[2] <= durable
  /\ \A u \in table \ txn.created : \A v \in txn.created : u[1] < v[1]

\* Rows by phase.  When no transaction can hold savepoints, none are left
\* behind, and a non-durable one never has any.
RowPhases ==
  /\ \A w \in Writers : PhaseRows(w)
  /\ (\A w \in Writers : wpc[w] \notin Holding) =>
       txn.created = {} /\ txn.deleted = {} /\ txn.releasing = {}
  /\ txn.durability = "None" =>
       txn.created = {} /\ txn.deleted = {} /\ txn.releasing = {}

\* The savepoint under construction is the newest.
Newest ==
  LET b == txn.building
  IN  /\ b.stage # "none" => /\ \E w \in Writers : wpc[w] = "live"
                             /\ \A u \in Settled : u[1] < b.sp /\ u[2] <= b.id
                             /\ b.id <= latest
      /\ b.stage = "registered" => b.sp = tracker.next_savepoint_id + 1
      /\ b.stage = "allocated" => b.sp <= tracker.next_savepoint_id

\* A valid savepoint holds a reference, and a savepoint that is being released
\* is no longer valid.
Valid ==
  /\ tracker.valid_savepoints \subseteq SavepointRefs
  /\ \A v \in tracker.valid_savepoints : \A u \in dropping \cup txn.releasing :
       v[1] # u[1]
  /\ txn.building.stage = "allocated" =>
       <<txn.building.sp, txn.building.id>> \in tracker.valid_savepoints

\* Pending non-durable commits pin the last durable transaction until the next
\* durable commit has cleared them.
Pending ==
  LET pending == tracker.pending_non_durable_commits
  IN  /\ \A c \in pending : c[1] <= tracker.next_transaction_id
      /\ \A c \in pending : c[2] <= durable
      /\ (\A w \in Writers : wpc[w] # "committed") =>
           \A c \in pending : c[2] = durable
      /\ \A w \in Writers :
           /\ wpc[w] \in {"live", "nondurable", "committed"} =>
                \A c \in pending : c[1] < tracker.live_write_transaction
           /\ wpc[w] \in {"applying", "epilogue", "published", "reserved"}
                /\ txn.durability = "Immediate" => pending = {}

\* Every reference is counted once.
Counts == RefCountExact /\ IsFiniteSet(reading)

\* The inductive invariant.
IInv ==
  TypeOK /\ Phases /\ RowPhases /\ Rows /\ Newest /\ Valid /\ Pending /\ Counts

-----------------------------------------------------------------------------
(* Finite sets of references *)

\* There are finitely many rows.
LEMMA FiniteRow ==
  IsFiniteSet(Row) /\ IsFiniteSet(TransactionId \X TransactionId)
<1>1. IsFiniteSet(SavepointId) /\ IsFiniteSet(TransactionId)
  BY TrackerBounds, FS_Interval DEF SavepointId, TransactionId
<1>. QED
  BY <1>1, FS_Product DEF Row

\* Savepoints and pending commits are finitely many.
LEMMA FiniteRefs ==
  ASSUME TypeOK
  PROVE  /\ SavepointRefs \in SUBSET Row
         /\ IsFiniteSet(SavepointRefs)
         /\ IsFiniteSet(tracker.pending_non_durable_commits)
<1>1. SavepointRefs \in SUBSET Row
  BY DEF TypeOK, SavepointRefs, Building, SavepointTransactionState, Row
<1>2. tracker.pending_non_durable_commits \in SUBSET (TransactionId \X TransactionId)
  BY DEF TypeOK, State
<1>. QED
  BY <1>1, <1>2, FiniteRow, FS_Subset

\* RefsOn of a finite set, before and after an element is added or removed.
LEMMA CountRefs ==
  ASSUME NEW S, IsFiniteSet(S), NEW t
  PROVE  /\ Cardinality(RefsOn(S, t)) \in Nat
         /\ \A x \in S : x[2] = t => Cardinality(RefsOn(S, t)) >= 1
         /\ \A x : x \notin S =>
              /\ IsFiniteSet(S \cup {x})
              /\ Cardinality(RefsOn(S \cup {x}, t)) =
                   Cardinality(RefsOn(S, t)) + (IF x[2] = t THEN 1 ELSE 0)
         /\ \A x \in S :
              /\ IsFiniteSet(S \ {x})
              /\ Cardinality(RefsOn(S \ {x}, t)) =
                   Cardinality(RefsOn(S, t)) - (IF x[2] = t THEN 1 ELSE 0)
<1>1. RefsOn(S, t) \subseteq S /\ IsFiniteSet(RefsOn(S, t))
  BY FS_Subset DEF RefsOn
<1>2. Cardinality(RefsOn(S, t)) \in Nat
  BY <1>1, FS_CardinalityType
<1>3. ASSUME NEW x \in S, x[2] = t PROVE Cardinality(RefsOn(S, t)) >= 1
  <2>1. x \in RefsOn(S, t)
    BY <1>3 DEF RefsOn
  <2>. QED
    BY <1>1, <1>2, <2>1, FS_EmptySet
<1>4. ASSUME NEW x, x \notin S
      PROVE  /\ IsFiniteSet(S \cup {x})
             /\ Cardinality(RefsOn(S \cup {x}, t)) =
                  Cardinality(RefsOn(S, t)) + (IF x[2] = t THEN 1 ELSE 0)
  <2>1. IsFiniteSet(S \cup {x})
    BY FS_AddElement
  <2>2. CASE x[2] = t
    <3>1. RefsOn(S \cup {x}, t) = RefsOn(S, t) \cup {x} /\ x \notin RefsOn(S, t)
      BY <1>4, <2>2 DEF RefsOn
    <3>. QED
      BY <1>1, <2>1, <2>2, <3>1, FS_AddElement, Zenon
  <2>3. CASE x[2] # t
    <3>1. RefsOn(S \cup {x}, t) = RefsOn(S, t)
      BY <2>3 DEF RefsOn
    <3>. QED
      BY <1>2, <2>1, <2>3, <3>1
  <2>. QED
    BY <2>2, <2>3
<1>5. ASSUME NEW x \in S
      PROVE  /\ IsFiniteSet(S \ {x})
             /\ Cardinality(RefsOn(S \ {x}, t)) =
                  Cardinality(RefsOn(S, t)) - (IF x[2] = t THEN 1 ELSE 0)
  <2>1. IsFiniteSet(S \ {x})
    BY FS_RemoveElement
  <2>2. CASE x[2] = t
    <3>1. RefsOn(S \ {x}, t) = RefsOn(S, t) \ {x} /\ x \in RefsOn(S, t)
      BY <2>2 DEF RefsOn
    <3>. QED
      BY <1>1, <2>1, <2>2, <3>1, FS_RemoveElement, Zenon
  <2>3. CASE x[2] # t
    <3>1. RefsOn(S \ {x}, t) = RefsOn(S, t)
      BY <2>3 DEF RefsOn
    <3>. QED
      BY <1>2, <2>1, <2>3, <3>1
  <2>. QED
    BY <2>2, <2>3
<1>. QED
  BY <1>2, <1>3, <1>4, <1>5, Zenon

-----------------------------------------------------------------------------
(* The condition variable *)

\* notify_one wakes at most one sleeper, and one if there is any.
LEMMA NotifiedOne ==
  ASSUME NEW pcs, pcs = [v \in Writers |-> pcs[v]], NEW q \in Notified(pcs)
  PROVE  /\ q = [v \in Writers |-> q[v]]
         /\ \A v \in Writers :
              q[v] = pcs[v] \/ (pcs[v] = "waiting" /\ q[v] = "woken")
         /\ (\E v \in Writers : q[v] = "waiting") =>
              \E v \in Writers : q[v] = "woken"
<1> DEFINE asleep == {v \in Writers : pcs[v] = "waiting"}
<1>1. CASE asleep = {}
  BY <1>1 DEF Notified
<1>2. CASE asleep # {}
  BY <1>2 DEF Notified
<1>. QED
  BY <1>1, <1>2

\* Once the write transaction has ended, no writer owns it.
LEMMA EndWritePhases ==
  ASSUME TypeOK, Exclusive, NEW w \in Writers, EndWrite(w)
  PROVE  /\ \A v \in Writers : wpc'[v] \notin Owning
         /\ wpc' \in [Writers -> Starting \cup {"waiting"}]
         /\ (\E v \in Writers : wpc'[v] = "waiting") =>
              \E v \in Writers : wpc'[v] = "woken"
<1> DEFINE pcs == [wpc EXCEPT ![w] = "idle"]
<1>1. PICK q \in Notified(pcs) : wpc' = q
  BY DEF EndWrite
<1>2. pcs \in [Writers -> Starting \cup {"waiting"}]
  BY DEF TypeOK, Exclusive, EndWrite, Owning, Starting
<1>3. pcs = [v \in Writers |-> pcs[v]]
  BY <1>2, Zenon
<1> HIDE DEF pcs
<1>4. /\ q = [v \in Writers |-> q[v]]
      /\ \A v \in Writers : q[v] = pcs[v] \/ q[v] = "woken"
      /\ (\E v \in Writers : q[v] = "waiting") =>
           \E v \in Writers : q[v] = "woken"
  BY <1>3, NotifiedOne
<1>. QED
  BY <1>1, <1>2, <1>4 DEF Owning, Starting

-----------------------------------------------------------------------------
(* Steps that leave much of the state alone *)

\* Steps of savepoints and of their owners: the writer stays where it is.
SavepointStep ==
  \/ \E w \in Writers :
       \/ SavepointRegister(w) \/ SavepointAllocate(w) \/ SavepointReturn(w)
       \/ SavepointPersist(w)
       \/ \E row \in View : delete_persistent_savepoint(w, row)
       \/ \E sp \in SavepointId : restore_savepoint(w, sp)
       \/ \E row \in txn.created \cup txn.deleted :
            ReleaseInvalidate(w, row) \/ ReleaseReference(w, row)
  \/ \E row \in handles : DropInvalidate(row)
  \/ \E row \in dropping : DropRelease(row)

\* Steps of readers, or of nobody.
ReaderStep ==
  \/ \E r \in Readers : BeginRead(r)
  \/ \E g \in reading : EndRead(g)
  \/ UNCHANGED vars

\* Steps of a writer that touch no savepoint.
WriterStep(w) ==
  \/ Wait(w) \/ SpuriousWakeup(w) \/ EndWrite(w)
  \/ \E durability \in {"Immediate", "None"} : set_durability(w, durability)
  \/ ClearPending(w) \/ MemNonDurableCommit(w) \/ RegisterNonDurable(w)
  \/ EpilogueSkip(w) \/ EpiloguePublish(w) \/ EpilogueReserve(w)
  \/ EpilogueRegister(w) \/ AbortDone(w)

\* These three kinds leave six actions.
LEMMA NextCases ==
  ASSUME [Next]_vars
  PROVE  \/ SavepointStep \/ ReaderStep
         \/ \E w \in Writers :
              WriterStep(w) \/ StartWrite(w) \/ MemCommit(w)
                \/ ApplyInvalidated(w) \/ Abort(w)
         \/ \E repaired \in BOOLEAN : Reopen(repaired)
BY DEF Next, SavepointStep, ReaderStep, WriterStep

\* What steps of savepoints and readers leave alone.
WriterKept ==
  /\ UNCHANGED <<wpc, latest, durable>>
  /\ tracker'.next_transaction_id = tracker.next_transaction_id
  /\ tracker'.live_write_transaction = tracker.live_write_transaction
  /\ tracker'.pending_non_durable_commits = tracker.pending_non_durable_commits
  /\ txn'.durability = txn.durability

\* Steps of savepoints and of readers leave the writers alone.
LEMMA WriterKeptStep ==
  ASSUME TypeOK, SavepointStep \/ ReaderStep
  PROVE  WriterKept
<1>1. tracker \in State /\ txn \in SavepointTransactionState
  BY DEF TypeOK
<1>2. ASSUME NEW w \in Writers, SavepointRegister(w) PROVE WriterKept
  BY <1>1, <1>2 DEF SavepointRegister, register_read_transaction, reference,
                    State, SavepointTransactionState, WriterKept
<1>3. ASSUME NEW w \in Writers, SavepointAllocate(w) PROVE WriterKept
  BY <1>1, <1>3 DEF SavepointAllocate, allocate_savepoint, State,
                    SavepointTransactionState, WriterKept
<1>4. ASSUME NEW w \in Writers, SavepointReturn(w) PROVE WriterKept
  BY <1>1, <1>4 DEF SavepointReturn, SavepointTransactionState, WriterKept
<1>5. ASSUME NEW w \in Writers, SavepointPersist(w) PROVE WriterKept
  BY <1>1, <1>5 DEF SavepointPersist, mark_savepoint_persistent, State,
                    SavepointTransactionState, WriterKept
<1>6. ASSUME NEW w \in Writers, NEW row \in View,
             delete_persistent_savepoint(w, row)
      PROVE  WriterKept
  BY <1>1, <1>6 DEF delete_persistent_savepoint, SavepointTransactionState,
                    WriterKept
<1>7. ASSUME NEW w \in Writers, NEW sp \in SavepointId, restore_savepoint(w, sp)
      PROVE  WriterKept
  BY <1>1, <1>7 DEF restore_savepoint, SavepointTransactionState, WriterKept
<1>8. ASSUME NEW w \in Writers, NEW row, ReleaseInvalidate(w, row)
      PROVE  WriterKept
  BY <1>1, <1>8 DEF ReleaseInvalidate, invalidate_savepoints, State,
                    SavepointTransactionState, WriterKept
<1>9. ASSUME NEW w \in Writers, NEW row, ReleaseReference(w, row)
      PROVE  WriterKept
  BY <1>1, <1>9 DEF ReleaseReference, deallocate_read_transaction, State,
                    SavepointTransactionState, WriterKept
<1>10. ASSUME NEW row, DropInvalidate(row) PROVE WriterKept
  BY <1>1, <1>10 DEF DropInvalidate, invalidate_savepoints, State, WriterKept
<1>11. ASSUME NEW row, DropRelease(row) PROVE WriterKept
  BY <1>1, <1>11 DEF DropRelease, deallocate_read_transaction, State, WriterKept
<1>12. ASSUME NEW r \in Readers, BeginRead(r) PROVE WriterKept
  BY <1>1, <1>12 DEF BeginRead, register_read_transaction, reference, State,
                     WriterKept
<1>13. ASSUME NEW g, EndRead(g) PROVE WriterKept
  BY <1>1, <1>13 DEF EndRead, deallocate_read_transaction, State, WriterKept
<1>14. CASE UNCHANGED vars
  BY <1>14 DEF vars, WriterKept
<1>. QED
  BY <1>2, <1>3, <1>4, <1>5, <1>6, <1>7, <1>8, <1>9, <1>10, <1>11, <1>12, <1>13,
     <1>14 DEF SavepointStep, ReaderStep

\* What steps of writers and readers leave alone.
SavepointsKept ==
  /\ UNCHANGED <<durable, handles, dropping, table, next_table>>
  /\ tracker'.next_savepoint_id = tracker.next_savepoint_id
  /\ tracker'.valid_savepoints = tracker.valid_savepoints
  /\ txn'.created = txn.created /\ txn'.deleted = txn.deleted
  /\ txn'.releasing = txn.releasing /\ txn'.building = txn.building

\* Steps of readers and most steps of writers leave the savepoints alone.
LEMMA SavepointsKeptStep ==
  ASSUME TypeOK, ReaderStep \/ \E w \in Writers : WriterStep(w)
  PROVE  SavepointsKept
<1>1. tracker \in State /\ txn \in SavepointTransactionState
  BY DEF TypeOK
<1>2. ASSUME NEW w \in Writers,
             \/ Wait(w) \/ SpuriousWakeup(w) \/ MemNonDurableCommit(w)
             \/ EpilogueSkip(w) \/ EpiloguePublish(w) \/ AbortDone(w)
      PROVE  SavepointsKept
  BY <1>2 DEF Wait, SpuriousWakeup, MemNonDurableCommit, EpilogueSkip,
              EpiloguePublish, AbortDone, SavepointsKept
<1>3. ASSUME NEW w \in Writers, EndWrite(w) PROVE SavepointsKept
  BY <1>1, <1>3 DEF EndWrite, end_write_transaction, State, SavepointsKept
<1>4. ASSUME NEW w \in Writers, NEW durability, set_durability(w, durability)
      PROVE  SavepointsKept
  BY <1>1, <1>4 DEF set_durability, SavepointTransactionState, SavepointsKept
<1>5. ASSUME NEW w \in Writers, ClearPending(w) PROVE SavepointsKept
  BY <1>1, <1>5 DEF ClearPending, clear_pending_non_durable_commits, State,
                    SavepointsKept
<1>6. ASSUME NEW w \in Writers, RegisterNonDurable(w) PROVE SavepointsKept
  BY <1>1, <1>6 DEF RegisterNonDurable, register_non_durable_commit, reference,
                    State, SavepointsKept
<1>7. ASSUME NEW w \in Writers, EpilogueReserve(w) PROVE SavepointsKept
  BY <1>1, <1>7 DEF EpilogueReserve, reserve_transaction_id, State,
                    SavepointsKept
<1>8. ASSUME NEW w \in Writers, EpilogueRegister(w) PROVE SavepointsKept
  BY <1>1, <1>8 DEF EpilogueRegister, register_non_durable_commit, reference,
                    State, SavepointsKept
<1>9. ASSUME NEW r \in Readers, BeginRead(r) PROVE SavepointsKept
  BY <1>1, <1>9 DEF BeginRead, register_read_transaction, reference, State,
                    SavepointsKept
<1>10. ASSUME NEW g, EndRead(g) PROVE SavepointsKept
  BY <1>1, <1>10 DEF EndRead, deallocate_read_transaction, State, SavepointsKept
<1>11. CASE UNCHANGED vars
  BY <1>11 DEF vars, SavepointsKept
<1>. QED
  BY <1>2, <1>3, <1>4, <1>5, <1>6, <1>7, <1>8, <1>9, <1>10, <1>11
     DEF ReaderStep, WriterStep

-----------------------------------------------------------------------------
(* Phases *)

\* The types of the fields of tracker and txn.
LEMMA FieldTypes ==
  ASSUME TypeOK
  PROVE  /\ tracker.next_savepoint_id \in SavepointId
         /\ tracker.next_transaction_id \in TransactionId
         /\ tracker.live_write_transaction \in TransactionId
         /\ tracker.live_read_transactions \in [TransactionId -> Nat]
         /\ tracker.valid_savepoints \in SUBSET Row
         /\ tracker.pending_non_durable_commits
              \in SUBSET (TransactionId \X TransactionId)
         /\ txn.created \in SUBSET Row /\ txn.deleted \in SUBSET Row
         /\ txn.releasing \in SUBSET Row
         /\ txn.building.sp \in SavepointId /\ txn.building.id \in TransactionId
         /\ txn.building.stage \in {"none", "registered", "allocated"}
         /\ txn.durability \in {"Immediate", "None"}
BY DEF TypeOK, State, SavepointTransactionState, Row

\* Transaction ids are numbers, which the provers need in order to compare
\* them, and every writer is in some phase.
LEMMA Ids ==
  ASSUME TypeOK
  PROVE  /\ TransactionId \subseteq Nat /\ MaxTxn \in Nat
         /\ latest \in Nat /\ durable \in Nat
         /\ tracker.next_transaction_id \in Nat
         /\ tracker.live_write_transaction \in Nat
         /\ wpc = [v \in Writers |-> wpc[v]]
BY FieldTypes, TrackerBounds DEF TypeOK, TransactionId

\* A reopened database has no write transaction and no pending commit.
LEMMA ReopenedIds ==
  ASSUME TypeOK, NEW repaired \in BOOLEAN, Reopen(repaired)
  PROVE  /\ \A w \in Writers : wpc'[w] = "idle"
         /\ latest' = durable' /\ durable <= durable' /\ durable' \in Nat
         /\ latest' <= tracker'.next_transaction_id
         /\ tracker'.live_write_transaction = NoTxn
         /\ tracker'.pending_non_durable_commits = {}
         /\ tracker'.next_savepoint_id = next_table
         /\ tracker'.valid_savepoints = table
         /\ \A t \in TransactionId : tracker'.live_read_transactions[t] =
              Cardinality({row \in table : row[2] = t})
         /\ UNCHANGED <<table, next_table>>
         /\ reading' = {} /\ handles' = {} /\ dropping' = {}
         /\ txn'.created = {} /\ txn'.deleted = {} /\ txn'.releasing = {}
         /\ txn'.building.stage = "none" /\ txn'.durability = "Immediate"
<1>1. PICK last \in Nat :
        /\ durable <= last /\ latest' = last /\ durable' = last
        /\ tracker' = end_write_transaction(
                        register_persistent_savepoints(
                          start_write_transaction(
                            restore_savepoint_counter_state(new(last + 1),
                                                            next_table)), table))
  BY Ids DEF Reopen
<1>2. /\ tracker'.next_transaction_id = last + 1 + 1
      /\ tracker'.live_write_transaction = NoTxn
      /\ tracker'.pending_non_durable_commits = {}
      /\ tracker'.next_savepoint_id = next_table
      /\ tracker'.valid_savepoints = table
      /\ \A t \in TransactionId : tracker'.live_read_transactions[t] =
           Cardinality({row \in table : row[2] = t})
  BY <1>1 DEF end_write_transaction, register_persistent_savepoints,
              start_write_transaction, restore_savepoint_counter_state, new
<1>3. /\ \A w \in Writers : wpc'[w] = "idle"
      /\ UNCHANGED <<table, next_table>>
      /\ reading' = {} /\ handles' = {} /\ dropping' = {}
      /\ txn'.created = {} /\ txn'.deleted = {} /\ txn'.releasing = {}
      /\ txn'.building.stage = "none" /\ txn'.durability = "Immediate"
  BY SMTT(20) DEF Reopen, EmptyTxn, NoSavepoint
<1>. QED
  BY <1>1, <1>2, <1>3

\* Phases is preserved by every step.
LEMMA PhasesStep ==
  ASSUME TypeOK, Phases, [Next]_vars
  PROVE  Phases'
<1>1. tracker \in State /\ txn \in SavepointTransactionState
  BY DEF TypeOK
<1> USE DEF Phases, Exclusive, PhaseIds, Owning, NoTxn
<1>2. CASE SavepointStep \/ ReaderStep
  BY <1>2, WriterKeptStep DEF WriterKept
<1>3. ASSUME NEW w \in Writers, Wait(w) PROVE Phases'
  BY <1>3, Ids DEF Wait, Starting
<1>4. ASSUME NEW w \in Writers, SpuriousWakeup(w) PROVE Phases'
  BY <1>4, Ids DEF SpuriousWakeup
<1>5. ASSUME NEW w \in Writers, StartWrite(w) PROVE Phases'
  <2>1. /\ tracker'.next_transaction_id = tracker.next_transaction_id + 1
        /\ tracker'.live_write_transaction = tracker.next_transaction_id + 1
    BY <1>1, <1>5 DEF StartWrite, start_write_transaction, State
  <2>. QED
    BY <1>5, <2>1, Ids DEF StartWrite, Starting
<1>6. ASSUME NEW w \in Writers, EndWrite(w) PROVE Phases'
  <2>1. /\ tracker'.next_transaction_id = tracker.next_transaction_id
        /\ wpc[w] = "ending" /\ latest' = latest /\ durable' = durable
    BY <1>1, <1>6 DEF EndWrite, end_write_transaction, State
  <2>2. \A v \in Writers : wpc'[v] \notin Owning
    BY <1>6, EndWritePhases
  <2>3. \A v \in Writers : wpc[v] \notin Owning \ {"ending"}
    BY <2>1
  <2>. QED
    BY <2>1, <2>2, <2>3
<1>7. ASSUME NEW w \in Writers, NEW durability, set_durability(w, durability)
      PROVE  Phases'
  BY <1>7 DEF set_durability
<1>8. ASSUME NEW w \in Writers, MemCommit(w) PROVE Phases'
  <2>1. /\ wpc[w] = "live" /\ wpc' = [wpc EXCEPT ![w] = "committed"]
        /\ latest' = tracker.live_write_transaction /\ durable' = latest'
        /\ tracker' = tracker /\ txn' = txn /\ txn.durability = "Immediate"
    BY <1>8 DEF MemCommit
  <2>. QED
    BY <2>1, Ids
<1>9. ASSUME NEW w \in Writers, ClearPending(w) PROVE Phases'
  <2>1. /\ tracker'.next_transaction_id = tracker.next_transaction_id
        /\ tracker'.live_write_transaction = tracker.live_write_transaction
    BY <1>1, <1>9 DEF ClearPending, clear_pending_non_durable_commits, State
  <2>. QED
    BY <1>9, <2>1, Ids DEF ClearPending
<1>10. ASSUME NEW w \in Writers, MemNonDurableCommit(w) PROVE Phases'
  BY <1>10, Ids DEF MemNonDurableCommit
<1>11. ASSUME NEW w \in Writers, RegisterNonDurable(w) PROVE Phases'
  <2>1. /\ tracker'.next_transaction_id = tracker.next_transaction_id
        /\ tracker'.live_write_transaction = tracker.live_write_transaction
    BY <1>1, <1>11
       DEF RegisterNonDurable, register_non_durable_commit, reference,
                       State
  <2>. QED
    BY <1>11, <2>1, Ids DEF RegisterNonDurable
<1>12. ASSUME NEW w \in Writers, ApplyInvalidated(w) PROVE Phases'
  <2>1. /\ tracker'.next_transaction_id = tracker.next_transaction_id
        /\ tracker'.live_write_transaction = tracker.live_write_transaction
    BY <1>1, <1>12 DEF ApplyInvalidated, invalidate_savepoints, State
  <2>2. txn'.durability = txn.durability
    BY <1>1, <1>12 DEF ApplyInvalidated, SavepointTransactionState
  <2>. QED
    BY <1>12, <2>1, <2>2, Ids DEF ApplyInvalidated
<1>13. ASSUME NEW w \in Writers, EpilogueSkip(w) PROVE Phases'
  BY <1>13, Ids DEF EpilogueSkip
<1>14. ASSUME NEW w \in Writers, EpiloguePublish(w) PROVE Phases'
  BY <1>14, Ids DEF EpiloguePublish
<1>15. ASSUME NEW w \in Writers, EpilogueReserve(w) PROVE Phases'
  <2>1. /\ tracker'.next_transaction_id = latest
        /\ tracker'.live_write_transaction = tracker.live_write_transaction
    BY <1>1, <1>15 DEF EpilogueReserve, reserve_transaction_id, State
  <2>. QED
    BY <1>15, <2>1, Ids DEF EpilogueReserve
<1>16. ASSUME NEW w \in Writers, EpilogueRegister(w) PROVE Phases'
  <2>1. /\ tracker'.next_transaction_id = tracker.next_transaction_id
        /\ tracker'.live_write_transaction = tracker.live_write_transaction
    BY <1>1, <1>16 DEF EpilogueRegister, register_non_durable_commit, reference,
                       State
  <2>. QED
    BY <1>16, <2>1, Ids DEF EpilogueRegister
<1>17. ASSUME NEW w \in Writers, Abort(w) PROVE Phases'
  <2>1. txn'.durability = txn.durability
    BY <1>1, <1>17 DEF Abort, SavepointTransactionState
  <2>. QED
    BY <1>17, <2>1, Ids DEF Abort
<1>18. ASSUME NEW w \in Writers, AbortDone(w) PROVE Phases'
  BY <1>18, Ids DEF AbortDone
<1>19. ASSUME NEW repaired \in BOOLEAN, Reopen(repaired) PROVE Phases'
  BY <1>19, ReopenedIds
<1>. QED
  BY <1>2, <1>3, <1>4, <1>5, <1>6, <1>7, <1>8, <1>9, <1>10, <1>11, <1>12, <1>13,
     <1>14, <1>15, <1>16, <1>17, <1>18, <1>19, NextCases, Zenon DEF WriterStep

-----------------------------------------------------------------------------
(* Types *)

\* The count of a transaction, from the references to it.
LEMMA CountOf ==
  ASSUME TypeOK, Counts, NEW t \in TransactionId
  PROVE  /\ tracker.live_read_transactions[t] =
              Cardinality(RefsOn(reading, t)) + Cardinality(RefsOn(SavepointRefs, t))
                + Cardinality(PendingOn(tracker, t))
         /\ Cardinality(RefsOn(reading, t)) \in Nat
         /\ Cardinality(RefsOn(SavepointRefs, t)) \in Nat
         /\ Cardinality(PendingOn(tracker, t)) \in Nat
         /\ \A x \in reading : x[2] = t => Cardinality(RefsOn(reading, t)) >= 1
         /\ \A x \in SavepointRefs :
              x[2] = t => Cardinality(RefsOn(SavepointRefs, t)) >= 1
         /\ \A x \in tracker.pending_non_durable_commits :
              x[2] = t => Cardinality(PendingOn(tracker, t)) >= 1
<1>1. PendingOn(tracker, t) = RefsOn(tracker.pending_non_durable_commits, t)
  BY DEF PendingOn, RefsOn
<1>2. IsFiniteSet(reading)
  BY DEF Counts
<1>. QED
  BY <1>1, <1>2, FiniteRefs, CountRefs DEF Counts, RefCountExact

\* A savepoint or read transaction that gives its reference back finds it
\* counted: get_mut(..).unwrap() succeeds.
LEMMA Referenced ==
  ASSUME TypeOK, Counts, NEW x \in reading \cup SavepointRefs
  PROVE  /\ x[2] \in TransactionId
         /\ tracker.live_read_transactions[x[2]] \in Nat \ {0}
<1>1. x[2] \in TransactionId
  BY FiniteRefs DEF TypeOK, Row
<1>. QED
  BY <1>1, CountOf DEF TypeOK, State

\* The operations of the tracker keep its state well typed.
LEMMA TrackerTypes ==
  ASSUME NEW tr \in State, NEW id \in TransactionId
  PROVE  /\ tr.next_transaction_id + 1 \in TransactionId =>
              start_write_transaction(tr) \in State
         /\ end_write_transaction(tr) \in State
         /\ reserve_transaction_id(tr, id) \in State
         /\ reference(tr, id) \in State
         /\ register_read_transaction(tr, id) \in State
         /\ tr.live_read_transactions[id] # 0 =>
              deallocate_read_transaction(tr, id) \in State
         /\ \A other \in TransactionId, b \in BOOLEAN :
              register_non_durable_commit(tr, other, id, b) \in State
         /\ (\A t \in TransactionId :
               tr.live_read_transactions[t] - Cardinality(PendingOn(tr, t)) \in Nat)
              => clear_pending_non_durable_commits(tr) \in State
         /\ \A sps : invalidate_savepoints(tr, sps) \in State
         /\ tr.next_savepoint_id + 1 \in SavepointId =>
              allocate_savepoint(tr, id) \in State
         /\ \A sp \in SavepointId : mark_savepoint_persistent(tr, sp) \in State
<1> USE DEF State
<1>1. reference(tr, id) \in State /\ register_read_transaction(tr, id) \in State
  BY DEF reference, register_read_transaction
<1>2. tr.live_read_transactions[id] # 0 =>
        deallocate_read_transaction(tr, id) \in State
  BY DEF deallocate_read_transaction
<1>3. tr.next_transaction_id + 1 \in TransactionId =>
        start_write_transaction(tr) \in State
  BY Zenon DEF start_write_transaction
<1>4. end_write_transaction(tr) \in State
  <2>1. NoTxn \in TransactionId
    BY TrackerBounds DEF NoTxn, TransactionId
  <2>. QED
    BY <2>1 DEF end_write_transaction
<1>5. reserve_transaction_id(tr, id) \in State
  BY DEF reserve_transaction_id
<1>6. ASSUME NEW other \in TransactionId, NEW b \in BOOLEAN
      PROVE  register_non_durable_commit(tr, other, id, b) \in State
  <2>1. PICK r \in State : r = reference(tr, id)
    BY <1>1
  <2>2. PICK un \in SUBSET TransactionId :
          un = IF b THEN r.unprocessed_freed_non_durable_commits \cup {other}
               ELSE r.unprocessed_freed_non_durable_commits
    BY Zenon
  <2>3. <<other, id>> \in TransactionId \X TransactionId
    OBVIOUS
  <2>4. register_non_durable_commit(tr, other, id, b) =
          [r EXCEPT !.pending_non_durable_commits = @ \cup {<<other, id>>},
                    !.unprocessed_freed_non_durable_commits = un]
    BY <2>1, <2>2 DEF register_non_durable_commit
  <2>5. r.pending_non_durable_commits \cup {<<other, id>>}
          \in SUBSET (TransactionId \X TransactionId)
    BY <2>3
  <2>. QED
    BY <2>4, <2>5, Zenon
<1>7. ASSUME \A t \in TransactionId :
               tr.live_read_transactions[t] - Cardinality(PendingOn(tr, t)) \in Nat
      PROVE  clear_pending_non_durable_commits(tr) \in State
  BY <1>7, Zenon DEF clear_pending_non_durable_commits
<1>8. ASSUME NEW sps PROVE invalidate_savepoints(tr, sps) \in State
  BY Zenon DEF invalidate_savepoints
<1>9. ASSUME tr.next_savepoint_id + 1 \in SavepointId
      PROVE  allocate_savepoint(tr, id) \in State
  <2>1. PICK next \in SavepointId : next = tr.next_savepoint_id + 1
    BY <1>9
  <2>2. <<next, id>> \in SavepointId \X TransactionId
    OBVIOUS
  <2>3. allocate_savepoint(tr, id) =
          [tr EXCEPT !.next_savepoint_id = next,
                     !.valid_savepoints = @ \cup {<<next, id>>}]
    BY <2>1 DEF allocate_savepoint
  <2>4. tr.valid_savepoints \cup {<<next, id>>}
          \in SUBSET (SavepointId \X TransactionId)
    BY <2>2
  <2>. QED
    BY <2>3, <2>4, Zenon
<1>10. ASSUME NEW sp \in SavepointId
       PROVE  mark_savepoint_persistent(tr, sp) \in State
  BY DEF mark_savepoint_persistent
<1>. QED
  BY <1>1, <1>2, <1>3, <1>4, <1>5, <1>6, <1>7, <1>8, <1>9, <1>10, Zenon

\* The tracker of a reopened database is well typed.
LEMMA ReopenedType ==
  ASSUME NEW rows \in SUBSET Row, NEW last \in Nat, last + 2 <= MaxTxn,
         NEW next \in SavepointId
  PROVE  LET counted == restore_savepoint_counter_state(new(last + 1), next)
         IN  end_write_transaction(register_persistent_savepoints(
               start_write_transaction(counted), rows)) \in State
<1>1. PICK a \in State : a = new(last + 1) /\ a.next_transaction_id = last + 1
  <2>1. /\ 0 \in SavepointId /\ NoTxn \in TransactionId
        /\ last + 1 \in TransactionId
    BY TrackerBounds DEF SavepointId, TransactionId, NoTxn
  <2>2. [t \in TransactionId |-> 0] \in [TransactionId -> Nat]
    OBVIOUS
  <2>3. new(last + 1) \in State
    BY <2>1, <2>2 DEF new, State
  <2>4. new(last + 1).next_transaction_id = last + 1
    BY DEF new
  <2>. QED
    BY <2>3, <2>4
<1>2. PICK b \in State : b = restore_savepoint_counter_state(a, next)
                           /\ b.next_transaction_id = last + 1
  <2>1. restore_savepoint_counter_state(a, next) \in State
    BY DEF restore_savepoint_counter_state, State
  <2>2. restore_savepoint_counter_state(a, next).next_transaction_id = last + 1
    BY <1>1 DEF restore_savepoint_counter_state, State
  <2>. QED
    BY <2>1, <2>2
<1>3. PICK c \in State : c = start_write_transaction(b)
  BY <1>2, TrackerBounds, TrackerTypes DEF TransactionId
<1>4. \A t \in TransactionId : Cardinality({row \in rows : row[2] = t}) \in Nat
  <2>1. IsFiniteSet(rows)
    BY FiniteRow, FS_Subset
  <2>2. ASSUME NEW t \in TransactionId
        PROVE  Cardinality({row \in rows : row[2] = t}) \in Nat
    BY <2>1, FS_Subset, FS_CardinalityType
  <2>. QED
    BY <2>2
<1>5. register_persistent_savepoints(c, rows) \in State
  <2>1. {row[1] : row \in rows} \in SUBSET SavepointId
    BY DEF Row
  <2>2. DOMAIN c.live_read_transactions = TransactionId
    BY DEF State
  <2>3. [t \in TransactionId |-> Cardinality({row \in rows : row[2] = t})]
          \in [TransactionId -> Nat]
    BY <1>4
  <2>. QED
    BY <2>1, <2>2, <2>3 DEF register_persistent_savepoints, State, Row
<1>. QED
  BY <1>1, <1>2, <1>3, <1>5, TrackerTypes, TrackerBounds DEF TransactionId

\* The state of a new write transaction is well typed.
LEMMA EmptyTypes ==
  /\ NoSavepoint \in [stage : {"none", "registered", "allocated"},
                      sp : SavepointId, id : TransactionId]
  /\ EmptyTxn \in SavepointTransactionState
<1>1. 0 \in SavepointId /\ 0 \in TransactionId
  BY TrackerBounds DEF SavepointId, TransactionId
<1>2. NoSavepoint \in [stage : {"none", "registered", "allocated"},
                       sp : SavepointId, id : TransactionId]
  BY <1>1 DEF NoSavepoint
<1>. QED
  BY <1>2 DEF EmptyTxn, SavepointTransactionState

\* TypeOK is preserved by every step.
LEMMA TypeStep ==
  ASSUME TypeOK, Phases, Newest, Counts, [Next]_vars
  PROVE  TypeOK'
<1> USE DEF TypeOK, Owning, Starting
<1>1. ASSUME NEW w \in Writers, Wait(w) PROVE TypeOK'
  BY <1>1 DEF Wait
<1>2. ASSUME NEW w \in Writers, SpuriousWakeup(w) PROVE TypeOK'
  BY <1>2 DEF SpuriousWakeup
<1>3. ASSUME NEW w \in Writers, StartWrite(w) PROVE TypeOK'
  <2>1. tracker' \in State
    <3>1. tracker.next_transaction_id + 1 \in TransactionId
      <4>1. tracker.next_transaction_id \in TransactionId
        BY FieldTypes
      <4>2. tracker.next_transaction_id + 2 <= MaxTxn
        BY <1>3 DEF StartWrite
      <4>. QED
        BY <4>1, <4>2, TrackerBounds DEF TransactionId
    <3>. QED
      BY <1>3, <3>1, TrackerTypes DEF StartWrite
  <2>2. txn' \in SavepointTransactionState
    BY <1>3, EmptyTypes DEF StartWrite
  <2>. QED
    BY <1>3, <2>1, <2>2 DEF StartWrite
<1>4. ASSUME NEW w \in Writers, EndWrite(w) PROVE TypeOK'
  <2>1. tracker' \in State
    BY <1>4, TrackerTypes DEF EndWrite
  <2>2. wpc' \in [Writers -> Owning \cup Starting \cup {"waiting"}]
    BY <1>4, EndWritePhases DEF Phases
  <2>. QED
    BY <1>4, <2>1, <2>2 DEF EndWrite
<1>5. ASSUME NEW w \in Writers, NEW durability \in {"Immediate", "None"},
             set_durability(w, durability)
      PROVE  TypeOK'
  BY <1>5 DEF set_durability, SavepointTransactionState
<1>6. ASSUME NEW w \in Writers, SavepointRegister(w) PROVE TypeOK'
  <2>1. tracker' \in State
    BY <1>6, TrackerTypes DEF SavepointRegister, SavepointTransaction
  <2>2. txn' \in SavepointTransactionState
    <3>1. PICK sp \in SavepointId :
            txn' = [txn EXCEPT !.building =
                      [stage |-> "registered", sp |-> sp, id |-> latest]]
      <4>1. tracker.next_savepoint_id \in SavepointId
        BY FieldTypes
      <4>2. tracker.next_savepoint_id + 1 <= MaxSavepoint
        BY <1>6 DEF SavepointRegister
      <4>3. tracker.next_savepoint_id + 1 \in SavepointId
        BY <4>1, <4>2, TrackerBounds DEF SavepointId
      <4>. QED
        BY <1>6, <4>3 DEF SavepointRegister, SavepointTransaction
    <3>. QED
      BY <3>1 DEF SavepointTransactionState
  <2>. QED
    BY <1>6, <2>1, <2>2 DEF SavepointRegister
<1>7. ASSUME NEW w \in Writers, SavepointAllocate(w) PROVE TypeOK'
  <2>1. tracker' \in State
    <3>1. tracker.next_savepoint_id + 1 \in SavepointId
      BY <1>7, FieldTypes DEF SavepointAllocate, Newest
    <3>. QED
      BY <1>7, <3>1, FieldTypes, TrackerTypes DEF SavepointAllocate
  <2>2. txn' \in SavepointTransactionState
    BY <1>7, TrackerBounds DEF SavepointAllocate, SavepointTransactionState
  <2>. QED
    BY <1>7, <2>1, <2>2 DEF SavepointAllocate
<1>8. ASSUME NEW w \in Writers, SavepointReturn(w) PROVE TypeOK'
  <2>1. txn' \in SavepointTransactionState
    BY <1>8, EmptyTypes DEF SavepointReturn, SavepointTransactionState
  <2>. QED
    BY <1>8, <2>1, FieldTypes DEF SavepointReturn, Row
<1>9. ASSUME NEW w \in Writers, SavepointPersist(w) PROVE TypeOK'
  <2>1. tracker' \in State
    BY <1>9, FieldTypes, TrackerTypes DEF SavepointPersist
  <2>2. txn' \in SavepointTransactionState
    <3>1. PICK b \in Row : b = <<txn.building.sp, txn.building.id>>
      BY FieldTypes, Zenon DEF Row
    <3>2. txn' = [txn EXCEPT !.created = @ \cup {b}, !.building = NoSavepoint]
      BY <1>9, <3>1 DEF SavepointPersist
    <3>3. txn.created \cup {b} \in SUBSET Row
      BY FieldTypes
    <3>. QED
      BY <3>2, <3>3, EmptyTypes, Zenon DEF SavepointTransactionState
  <2>. QED
    BY <1>9, <2>1, <2>2 DEF SavepointPersist
<1>10. ASSUME NEW w \in Writers, NEW row \in View, delete_persistent_savepoint(w, row)
       PROVE  TypeOK'
  <2>1. txn' \in SavepointTransactionState
    BY <1>10, TrackerBounds
       DEF delete_persistent_savepoint, View, SavepointTransactionState
  <2>. QED
    BY <1>10, <2>1 DEF delete_persistent_savepoint
<1>11. ASSUME NEW w \in Writers, NEW sp \in SavepointId, restore_savepoint(w, sp)
       PROVE  TypeOK'
  <2>1. txn' \in SavepointTransactionState
    <3>1. PICK later \in SUBSET SavepointId : later = list_savepoints_after(tracker, sp)
      BY FieldTypes, ZenonT(30) DEF list_savepoints_after, ValidIds, Row
    <3>2. PICK rows \in SUBSET Row : rows = {row \in View : row[1] > sp}
      BY FieldTypes, Zenon DEF View
    <3>3. txn' = [txn EXCEPT !.invalidated = @ \cup later,
                             !.deleted = @ \cup rows, !.dirty = TRUE]
      BY <1>11, <3>1, <3>2 DEF restore_savepoint
    <3>. QED
      BY <3>3, Zenon DEF SavepointTransactionState
  <2>. QED
    BY <1>11, <2>1 DEF restore_savepoint
<1>12. ASSUME NEW w \in Writers, MemCommit(w) PROVE TypeOK'
  <2>1. table' \in SUBSET Row
    BY <1>12, FieldTypes DEF MemCommit, View
  <2>2. next_table' \in Nat
    <3>1. CASE next_table' = next_table
      BY <3>1
    <3>2. ASSUME NEW row \in txn.created, next_table' = row[1] + 1
          PROVE  next_table' \in Nat
      BY <3>2, FieldTypes, TrackerBounds DEF Row, SavepointId
    <3>. QED
      BY <1>12, <3>1, <3>2 DEF MemCommit
  <2>. QED
    BY <1>12, <2>1, <2>2, FieldTypes DEF MemCommit
<1>13. ASSUME NEW w \in Writers, ClearPending(w) PROVE TypeOK'
  <2>1. tracker' \in State
    <3>1. \A t \in TransactionId : tracker.live_read_transactions[t]
                                     - Cardinality(PendingOn(tracker, t)) \in Nat
      BY CountOf
    <3>. QED
      BY <1>13, <3>1, TrackerTypes DEF ClearPending
  <2>. QED
    BY <1>13, <2>1 DEF ClearPending
<1>14. ASSUME NEW w \in Writers, MemNonDurableCommit(w) PROVE TypeOK'
  <2>. QED
    BY <1>14, FieldTypes DEF MemNonDurableCommit
<1>15. ASSUME NEW w \in Writers, RegisterNonDurable(w) PROVE TypeOK'
  <2>1. tracker' \in State
    BY <1>15, FieldTypes, TrackerTypes DEF RegisterNonDurable
  <2>. QED
    BY <1>15, <2>1 DEF RegisterNonDurable
<1>16. ASSUME NEW w \in Writers, NEW row \in txn.created \cup txn.deleted,
              ReleaseInvalidate(w, row)
       PROVE  TypeOK'
  <2>1. tracker' \in State
    BY <1>16, TrackerTypes DEF ReleaseInvalidate
  <2>2. txn' \in SavepointTransactionState
    BY <1>16, TrackerBounds DEF ReleaseInvalidate, SavepointTransactionState
  <2>. QED
    BY <1>16, <2>1, <2>2 DEF ReleaseInvalidate
<1>17. ASSUME NEW w \in Writers, NEW row \in txn.created \cup txn.deleted,
              ReleaseReference(w, row)
       PROVE  TypeOK'
  <2>1. tracker' \in State
    BY <1>17, Referenced, TrackerTypes DEF ReleaseReference, SavepointRefs
  <2>2. txn' \in SavepointTransactionState
    BY <1>17, TrackerBounds, Zenon
       DEF ReleaseReference, SavepointTransactionState
  <2>. QED
    BY <1>17, <2>1, <2>2 DEF ReleaseReference
<1>18. ASSUME NEW w \in Writers, ApplyInvalidated(w) PROVE TypeOK'
  <2>1. tracker' \in State
    BY <1>18, TrackerTypes DEF ApplyInvalidated
  <2>2. txn' \in SavepointTransactionState
    BY <1>18, TrackerBounds, Zenon
       DEF ApplyInvalidated, SavepointTransactionState
  <2>. QED
    BY <1>18, <2>1, <2>2 DEF ApplyInvalidated
<1>19. ASSUME NEW w \in Writers, EpilogueSkip(w) PROVE TypeOK'
  BY <1>19 DEF EpilogueSkip
<1>20. ASSUME NEW w \in Writers, EpiloguePublish(w) PROVE TypeOK'
  <2>1. tracker.live_write_transaction \in TransactionId
    BY FieldTypes
  <2>2. tracker.live_write_transaction + 1 <= MaxTxn
    BY <1>20 DEF EpiloguePublish, Phases, PhaseIds
  <2>3. tracker.live_write_transaction + 1 \in TransactionId
    BY <2>1, <2>2, TrackerBounds DEF TransactionId
  <2>. QED
    BY <1>20, <2>3 DEF EpiloguePublish
<1>21. ASSUME NEW w \in Writers, EpilogueReserve(w) PROVE TypeOK'
  <2>1. tracker' \in State
    BY <1>21, TrackerTypes DEF EpilogueReserve
  <2>. QED
    BY <1>21, <2>1 DEF EpilogueReserve
<1>22. ASSUME NEW w \in Writers, EpilogueRegister(w) PROVE TypeOK'
  <2>1. tracker' \in State
    BY <1>22, FieldTypes, TrackerTypes DEF EpilogueRegister
  <2>. QED
    BY <1>22, <2>1 DEF EpilogueRegister
<1>23. ASSUME NEW w \in Writers, Abort(w) PROVE TypeOK'
  <2>1. txn' \in SavepointTransactionState
    BY <1>23, TrackerBounds, Zenon DEF Abort, SavepointTransactionState
  <2>. QED
    BY <1>23, <2>1 DEF Abort
<1>24. ASSUME NEW w \in Writers, AbortDone(w) PROVE TypeOK'
  BY <1>24 DEF AbortDone
<1>25. ASSUME NEW r \in Readers, BeginRead(r) PROVE TypeOK'
  <2>1. tracker' \in State
    BY <1>25, TrackerTypes DEF BeginRead
  <2>. QED
    BY <1>25, <2>1 DEF BeginRead
<1>26. ASSUME NEW g \in reading, EndRead(g) PROVE TypeOK'
  <2>1. tracker' \in State
    BY <1>26, Referenced, TrackerTypes DEF EndRead
  <2>. QED
    BY <1>26, <2>1 DEF EndRead
<1>27. ASSUME NEW row \in handles, DropInvalidate(row) PROVE TypeOK'
  <2>1. tracker' \in State
    BY <1>27, TrackerTypes DEF DropInvalidate
  <2>. QED
    BY <1>27, <2>1 DEF DropInvalidate
<1>28. ASSUME NEW row \in dropping, DropRelease(row) PROVE TypeOK'
  <2>1. tracker' \in State
    BY <1>28, Referenced, TrackerTypes DEF DropRelease, SavepointRefs
  <2>. QED
    BY <1>28, <2>1 DEF DropRelease
<1>29. ASSUME NEW repaired \in BOOLEAN, Reopen(repaired) PROVE TypeOK'
  <2>1. tracker' \in State
    <3> DEFINE last == IF repaired THEN durable + 1 ELSE durable
    <3>1. last \in Nat /\ last + 2 <= MaxTxn /\ next_table \in SavepointId
      BY <1>29, TrackerBounds DEF Reopen, TransactionId, SavepointId
    <3>2. tracker' = end_write_transaction(register_persistent_savepoints(
                       start_write_transaction(restore_savepoint_counter_state(
                         new(last + 1), next_table)), table))
      BY <1>29 DEF Reopen
    <3> HIDE DEF last
    <3>. QED
      BY <3>1, <3>2, ReopenedType
  <2>2. txn' \in SavepointTransactionState
    BY <1>29, EmptyTypes DEF Reopen
  <2>. QED
    BY <1>29, <2>1, <2>2, TrackerBounds DEF Reopen, TransactionId
<1>30. CASE UNCHANGED vars
  BY <1>30 DEF vars
<1>. QED
  BY <1>1, <1>2, <1>3, <1>4, <1>5, <1>6, <1>7, <1>8, <1>9, <1>10, <1>11, <1>12,
     <1>13, <1>14, <1>15, <1>16, <1>17, <1>18, <1>19, <1>20, <1>21, <1>22,
     <1>23, <1>24, <1>25, <1>26, <1>27, <1>28, <1>29, <1>30, Zenon DEF Next

-----------------------------------------------------------------------------
(* Pending non-durable commits *)

\* Pending survives when the tracker's ids and the durable commit stay and no
\* writer enters a phase about which it says something.
LEMMA PendingKept ==
  ASSUME Pending,
         tracker'.next_transaction_id = tracker.next_transaction_id,
         tracker'.pending_non_durable_commits = tracker.pending_non_durable_commits,
         durable' = durable,
         \A v \in Writers :
           \/ /\ wpc'[v] = wpc[v]
              /\ txn'.durability = txn.durability
              /\ tracker'.live_write_transaction = tracker.live_write_transaction
           \/ /\ wpc[v] # "committed"
              /\ wpc'[v] \in {"idle", "woken", "waiting", "ending", "aborting"}
  PROVE  Pending'
BY DEF Pending

\* Pending is preserved by every step.
LEMMA PendingStep ==
  ASSUME TypeOK, Phases, Pending, [Next]_vars
  PROVE  Pending'
<1>1. tracker \in State /\ txn \in SavepointTransactionState
  BY DEF TypeOK
<1>2. \A c \in tracker.pending_non_durable_commits : c[1] \in Nat /\ c[2] \in Nat
  BY FieldTypes, Ids
<1>3. CASE SavepointStep \/ ReaderStep
  <2>1. WriterKept
    BY <1>3, WriterKeptStep
  <2>. QED
    BY <2>1 DEF WriterKept, Pending
<1>4. ASSUME NEW w \in Writers,
             Wait(w) \/ SpuriousWakeup(w) \/ EpilogueSkip(w) \/ AbortDone(w)
      PROVE  Pending'
  <2>1. UNCHANGED <<tracker, durable, txn>>
    BY <1>4 DEF Wait, SpuriousWakeup, EpilogueSkip, AbortDone
  <2>2. /\ \A v \in Writers : v # w => wpc'[v] = wpc[v]
        /\ wpc[w] # "committed" /\ wpc'[w] \in {"woken", "waiting", "ending"}
    BY <1>4, Ids DEF Wait, SpuriousWakeup, EpilogueSkip, AbortDone, Starting
  <2>. QED
    BY <2>1, <2>2 DEF Pending
<1>5. ASSUME NEW w \in Writers, StartWrite(w) PROVE Pending'
  <2>1. /\ tracker'.live_write_transaction = tracker.next_transaction_id + 1
        /\ tracker'.next_transaction_id = tracker.next_transaction_id + 1
        /\ tracker'.pending_non_durable_commits = tracker.pending_non_durable_commits
    BY <1>1, <1>5 DEF StartWrite, start_write_transaction, State
  <2>2. /\ \A v \in Writers : wpc[v] \notin Owning
        /\ \A v \in Writers : v # w => wpc'[v] = wpc[v]
        /\ wpc'[w] = "live" /\ durable' = durable
    BY <1>5, Ids DEF StartWrite, Phases, Exclusive
  <2>. QED
    BY <1>2, <2>1, <2>2, Ids DEF Pending, Owning
<1>6. ASSUME NEW w \in Writers, EndWrite(w) PROVE Pending'
  <2>1. /\ wpc[w] = "ending" /\ durable' = durable
        /\ tracker'.next_transaction_id = tracker.next_transaction_id
        /\ tracker'.pending_non_durable_commits = tracker.pending_non_durable_commits
    BY <1>1, <1>6 DEF EndWrite, end_write_transaction, State
  <2>2. \A v \in Writers : wpc[v] # "committed"
    BY <2>1 DEF Phases, Exclusive, Owning
  <2>3. wpc' \in [Writers -> Starting \cup {"waiting"}]
    BY <1>6, EndWritePhases DEF Phases
  <2>. QED
    BY <2>1, <2>2, <2>3, PendingKept DEF Starting
<1>7. ASSUME NEW w \in Writers, NEW durability, set_durability(w, durability)
      PROVE  Pending'
  <2>1. \A v \in Writers : wpc[v] \in Owning => wpc[v] = "live"
    BY <1>7 DEF set_durability, Phases, Exclusive, Owning
  <2>. QED
    BY <1>7, <2>1 DEF set_durability, Pending, Owning
<1>8. ASSUME NEW w \in Writers, MemCommit(w) PROVE Pending'
  <2>1. /\ \A v \in Writers : v # w => wpc'[v] = wpc[v]
        /\ wpc[w] = "live" /\ wpc'[w] = "committed"
        /\ durable' = tracker.live_write_transaction
        /\ tracker' = tracker
    BY <1>8, Ids DEF MemCommit
  <2>2. durable < durable'
    BY <2>1, Ids DEF Phases, PhaseIds
  <2>3. \A v \in Writers : v # w => wpc[v] \notin Owning
    BY <2>1 DEF Phases, Exclusive, Owning
  <2>. QED
    BY <1>2, <2>1, <2>2, <2>3, Ids DEF Pending, Owning
<1>9. ASSUME NEW w \in Writers, ClearPending(w) PROVE Pending'
  <2>1. tracker'.pending_non_durable_commits = {}
    BY <1>1, <1>9 DEF ClearPending, clear_pending_non_durable_commits, State
  <2>. QED
    BY <2>1 DEF Pending
<1>10. ASSUME NEW w \in Writers, MemNonDurableCommit(w) PROVE Pending'
  BY <1>10, Ids DEF MemNonDurableCommit, Pending
<1>11. ASSUME NEW w \in Writers, RegisterNonDurable(w) PROVE Pending'
  <2>1. /\ tracker'.next_transaction_id = tracker.next_transaction_id
        /\ tracker'.pending_non_durable_commits =
             tracker.pending_non_durable_commits
               \cup {<<tracker.live_write_transaction, durable>>}
    BY <1>1, <1>11
       DEF RegisterNonDurable, register_non_durable_commit, reference,
                       State
  <2>2. /\ \A v \in Writers : v # w => wpc'[v] = wpc[v]
        /\ wpc[w] = "nondurable" /\ wpc'[w] = "applying"
        /\ durable' = durable /\ txn' = txn
    BY <1>11, Ids DEF RegisterNonDurable
  <2>3. /\ \A v \in Writers : v # w => wpc[v] \notin Owning
        /\ tracker.live_write_transaction = tracker.next_transaction_id
        /\ txn.durability = "None"
    BY <2>2 DEF Phases, Exclusive, PhaseIds, Owning
  <2>. QED
    BY <1>2, <2>1, <2>2, <2>3, Ids DEF Pending, Owning
<1>12. ASSUME NEW w \in Writers, ApplyInvalidated(w) PROVE Pending'
  <2>1. /\ tracker'.next_transaction_id = tracker.next_transaction_id
        /\ tracker'.live_write_transaction = tracker.live_write_transaction
        /\ tracker'.pending_non_durable_commits = tracker.pending_non_durable_commits
    BY <1>1, <1>12 DEF ApplyInvalidated, invalidate_savepoints, State
  <2>2. txn'.durability = txn.durability
    BY <1>1, <1>12 DEF ApplyInvalidated, SavepointTransactionState
  <2>. QED
    BY <1>12, <2>1, <2>2, Ids DEF ApplyInvalidated, Pending
<1>13. ASSUME NEW w \in Writers, EpiloguePublish(w) PROVE Pending'
  BY <1>13, Ids DEF EpiloguePublish, Pending
<1>14. ASSUME NEW w \in Writers, EpilogueReserve(w) PROVE Pending'
  <2>1. tracker'.pending_non_durable_commits = tracker.pending_non_durable_commits
    BY <1>1, <1>14 DEF EpilogueReserve, reserve_transaction_id, State
  <2>2. tracker.pending_non_durable_commits = {}
    BY <1>14 DEF EpilogueReserve, Pending, Phases, PhaseIds
  <2>. QED
    BY <2>1, <2>2 DEF Pending
<1>15. ASSUME NEW w \in Writers, EpilogueRegister(w) PROVE Pending'
  <2>1. /\ tracker'.next_transaction_id = tracker.next_transaction_id
        /\ tracker'.pending_non_durable_commits =
             tracker.pending_non_durable_commits
               \cup {<<latest, tracker.live_write_transaction>>}
    BY <1>1, <1>15 DEF EpilogueRegister, register_non_durable_commit, reference,
                       State
  <2>2. /\ \A v \in Writers : v # w => wpc'[v] = wpc[v]
        /\ wpc[w] = "reserved" /\ wpc'[w] = "ending"
        /\ durable' = durable
    BY <1>15, Ids DEF EpilogueRegister
  <2>3. /\ \A v \in Writers : v # w => wpc[v] \notin Owning
        /\ latest = tracker.next_transaction_id
        /\ durable = tracker.live_write_transaction
        /\ tracker.pending_non_durable_commits = {}
    BY <2>2 DEF Phases, Exclusive, PhaseIds, Owning, Pending
  <2>. QED
    BY <2>1, <2>2, <2>3, Ids DEF Pending, Owning
<1>16. ASSUME NEW w \in Writers, Abort(w) PROVE Pending'
  <2>1. txn'.durability = txn.durability
    BY <1>1, <1>16 DEF Abort, SavepointTransactionState
  <2>2. /\ \A v \in Writers : v # w => wpc'[v] = wpc[v]
        /\ wpc[w] # "committed" /\ wpc'[w] = "aborting"
        /\ UNCHANGED <<tracker, durable>>
    BY <1>16, Ids DEF Abort
  <2>. QED
    BY <2>1, <2>2 DEF Pending
<1>17. ASSUME NEW repaired \in BOOLEAN, Reopen(repaired) PROVE Pending'
  BY <1>17, ReopenedIds, SMTT(20) DEF Pending
<1>. QED
  BY <1>3, <1>4, <1>5, <1>6, <1>7, <1>8, <1>9, <1>10, <1>11, <1>12, <1>13,
     <1>14,
     <1>15, <1>16, <1>17, NextCases DEF WriterStep

-----------------------------------------------------------------------------
(* Rows created and deleted by the write transaction *)

\* RowPhases is preserved by every step.
LEMMA RowPhasesStep ==
  ASSUME TypeOK, Phases, RowPhases, Newest, [Next]_vars
  PROVE  RowPhases'
<1>1. tracker \in State /\ txn \in SavepointTransactionState
  BY DEF TypeOK
<1>2. wpc = [v \in Writers |-> wpc[v]]
  BY Ids
<1>3. \A v, w \in Writers : wpc[v] \in Owning /\ wpc[w] \in Owning => v = w
  BY DEF Phases, Exclusive
<1> USE DEF RowPhases, PhaseRows, Holding, Owning
<1>4. CASE ReaderStep
  <2>1. SavepointsKept /\ WriterKept
    BY <1>4, SavepointsKeptStep, WriterKeptStep, SMTT(20)
  <2>. QED
    BY <2>1 DEF SavepointsKept, WriterKept
<1>5. ASSUME NEW w \in Writers, WriterStep(w) PROVE RowPhases'
  <2>1. SavepointsKept
    BY <1>5, SavepointsKeptStep
  <2>2. CASE Wait(w) \/ SpuriousWakeup(w)
    BY <1>2, <2>1, <2>2 DEF Wait, SpuriousWakeup, Starting, SavepointsKept
  <2>3. CASE EndWrite(w)
    <3>1. /\ wpc[w] = "ending" /\ txn' = txn
          /\ \A v \in Writers : wpc'[v] \notin Owning
      BY <2>3, EndWritePhases DEF EndWrite, Phases
    <3>. QED
      BY <1>3, <3>1
  <2>4. ASSUME NEW durability \in {"Immediate", "None"},
               set_durability(w, durability)
        PROVE  RowPhases'
    <3>1. txn'.durability = durability
      BY <1>1, <2>4 DEF set_durability, SavepointTransactionState
    <3>. QED
      BY <2>1, <2>4, <3>1 DEF set_durability, SavepointsKept
  <2>5. CASE ClearPending(w)
    BY <1>2, <1>3, <2>5 DEF ClearPending
  <2>6. CASE MemNonDurableCommit(w)
    BY <1>2, <1>3, <2>6 DEF MemNonDurableCommit
  <2>7. CASE RegisterNonDurable(w)
    <3>1. txn.durability = "None"
      BY <2>7 DEF RegisterNonDurable, Phases, PhaseIds
    <3>. QED
      BY <1>2, <1>3, <2>7, <3>1 DEF RegisterNonDurable
  <2>8. CASE EpilogueSkip(w) \/ EpiloguePublish(w) \/ EpilogueReserve(w)
               \/ EpilogueRegister(w)
    BY <1>2, <1>3, <2>8 DEF EpilogueSkip, EpiloguePublish, EpilogueReserve,
                            EpilogueRegister
  <2>9. CASE AbortDone(w)
    BY <1>2, <1>3, <2>9 DEF AbortDone
  <2>. QED
    BY <1>5, <2>2, <2>3, <2>4, <2>5, <2>6, <2>7, <2>8, <2>9, Zenon DEF WriterStep
<1>6. ASSUME NEW w \in Writers, StartWrite(w) PROVE RowPhases'
  <2>1. txn'.created = {} /\ txn'.deleted = {} /\ txn'.releasing = {}
    BY <1>6 DEF StartWrite, EmptyTxn
  <2>. QED
    BY <1>2, <1>6, <2>1 DEF StartWrite, Starting
<1>7. ASSUME NEW row, DropInvalidate(row) \/ DropRelease(row)
      PROVE  RowPhases'
  BY <1>7 DEF DropInvalidate, DropRelease
<1>8. ASSUME NEW w \in Writers,
             SavepointRegister(w) \/ SavepointAllocate(w) \/ SavepointReturn(w)
      PROVE  RowPhases'
  <2>1. /\ UNCHANGED <<wpc, table>>
        /\ txn'.created = txn.created /\ txn'.deleted = txn.deleted
        /\ txn'.releasing = txn.releasing /\ txn'.durability = txn.durability
    BY <1>1, <1>8 DEF SavepointRegister, SavepointAllocate, SavepointReturn,
                      SavepointTransactionState
  <2>. QED
    BY <2>1
<1>9. ASSUME NEW w \in Writers, SavepointPersist(w) PROVE RowPhases'
  <2>1. PICK b : b = <<txn.building.sp, txn.building.id>>
    BY Zenon
  <2>2. /\ wpc[w] = "live" /\ wpc' = wpc /\ table' = table
        /\ txn.durability = "Immediate" /\ txn'.durability = txn.durability
        /\ txn'.created = txn.created \cup {b}
        /\ txn'.deleted = txn.deleted /\ txn'.releasing = txn.releasing
    BY <1>1, <1>9, <2>1 DEF SavepointPersist, SavepointTransactionState
  <2>3. b \notin table
    <3>1. \A u \in table : u[1] \in Nat /\ b[1] \in Nat
      BY <2>1, FieldTypes, TrackerBounds DEF TypeOK, Row, SavepointId
    <3>2. \A u \in table : u[1] < b[1]
      BY <1>9, <2>1, SMTT(20) DEF SavepointPersist, Newest, Settled
    <3>. QED
      BY <3>1, <3>2
  <2>. QED
    BY <1>3, <2>2, <2>3
<1>10. ASSUME NEW w \in Writers, NEW row \in View,
              delete_persistent_savepoint(w, row)
       PROVE  RowPhases'
  <2>1. /\ wpc[w] = "live" /\ wpc' = wpc /\ table' = table
        /\ txn.durability = "Immediate" /\ txn'.durability = txn.durability
        /\ txn'.created = txn.created /\ txn'.releasing = txn.releasing
        /\ txn'.deleted = txn.deleted \cup {row}
    BY <1>1, <1>10 DEF delete_persistent_savepoint, SavepointTransactionState
  <2>. QED
    BY <1>3, <2>1, Zenon DEF View
<1>11. ASSUME NEW w \in Writers, NEW sp \in SavepointId, restore_savepoint(w, sp)
       PROVE  RowPhases'
  <2>1. PICK rows \in SUBSET View : rows = {row \in View : row[1] > sp}
    BY Zenon
  <2>2. /\ wpc[w] = "live" /\ wpc' = wpc /\ table' = table
        /\ txn'.durability = txn.durability
        /\ txn'.created = txn.created /\ txn'.releasing = txn.releasing
        /\ txn'.deleted = txn.deleted \cup rows
    BY <1>1, <1>11, <2>1 DEF restore_savepoint, SavepointTransactionState
  <2>3. txn.durability = "None" => rows = {}
    <3>1. \A row \in View : row[1] \in Int /\ sp \in Int
      BY FieldTypes, TrackerBounds DEF TypeOK, View, Row, SavepointId
    <3>. QED
      BY <1>11, <2>1, <3>1 DEF restore_savepoint
  <2>. QED
    BY <1>3, <2>2, <2>3 DEF View
<1>12. ASSUME NEW w \in Writers, MemCommit(w) PROVE RowPhases'
  BY <1>2, <1>3, <1>12 DEF MemCommit, View
<1>13. ASSUME NEW w \in Writers, NEW row \in txn.created \cup txn.deleted,
              ReleaseInvalidate(w, row)
       PROVE  RowPhases'
  <2>1. /\ UNCHANGED <<wpc, table>>
        /\ txn'.created = txn.created /\ txn'.deleted = txn.deleted
        /\ txn'.releasing = {row} /\ txn'.durability = txn.durability
    BY <1>1, <1>13 DEF ReleaseInvalidate, SavepointTransactionState
  <2>. QED
    BY <1>3, <1>13, <2>1 DEF ReleaseInvalidate
<1>14. ASSUME NEW w \in Writers, NEW row \in txn.created \cup txn.deleted,
              ReleaseReference(w, row)
       PROVE  RowPhases'
  <2>1. /\ wpc[w] \in {"applying", "aborting"} /\ UNCHANGED <<wpc, table>>
        /\ row \in txn.releasing
        /\ txn'.created = txn.created \ {row} /\ txn'.deleted = txn.deleted \ {row}
        /\ txn'.releasing = {} /\ txn'.durability = txn.durability
    BY <1>1, <1>14 DEF ReleaseReference, SavepointTransactionState
  <2>. QED
    BY <1>3, <2>1
<1>15. ASSUME NEW w \in Writers, ApplyInvalidated(w) PROVE RowPhases'
  <2>1. /\ txn'.created = {} /\ txn'.deleted = {} /\ txn'.releasing = {}
        /\ wpc[w] = "applying" /\ wpc'[w] \in {"epilogue", "ending"}
        /\ \A v \in Writers : v # w => wpc'[v] = wpc[v]
    BY <1>1, <1>2, <1>15 DEF ApplyInvalidated, SavepointTransactionState
  <2>. QED
    BY <1>3, <2>1
<1>16. ASSUME NEW w \in Writers, Abort(w) PROVE RowPhases'
  <2>1. /\ txn'.created = txn.created /\ txn'.deleted = {}
        /\ txn'.releasing = txn.releasing /\ txn'.durability = txn.durability
    BY <1>1, <1>16 DEF Abort, SavepointTransactionState
  <2>. QED
    BY <1>2, <1>3, <1>16, <2>1 DEF Abort
<1>17. ASSUME NEW repaired \in BOOLEAN, Reopen(repaired) PROVE RowPhases'
  BY <1>17, ReopenedIds
<1>. QED
  BY <1>4, <1>5, <1>6, <1>7, <1>8, <1>9, <1>10, <1>11, <1>12, <1>13, <1>14,
     <1>15, <1>16, <1>17, NextCases, Zenon DEF SavepointStep

=============================================================================
