----------------------- MODULE TrackerClientsProofs -----------------------
(***************************************************************************)
(* The theorems about TrackerClients.  The counts of live_read_transactions*)
(* are shown to follow the references, which completes the proof that IInv *)
(* (module TrackerPhaseProofs) is an invariant; each theorem then is a     *)
(* consequence of IInv.                                                    *)
(***************************************************************************)
EXTENDS TrackerSavepointProofs

-----------------------------------------------------------------------------
(* Reference counts *)

\* The reference count of a transaction.
Count(t) == tracker.live_read_transactions[t]

\* Counts, with the pending commits written as RefsOn.
LEMMA CountsByRefs ==
  ASSUME TypeOK
  PROVE  Counts <=>
           /\ IsFiniteSet(reading)
           /\ \A t \in TransactionId :
                Count(t) = Cardinality(RefsOn(reading, t))
                  + Cardinality(RefsOn(SavepointRefs, t))
                  + Cardinality(RefsOn(tracker.pending_non_durable_commits, t))
BY DEF Counts, RefCountExact, Count, PendingOn, RefsOn

\* The three sets of references are finite.
LEMMA FiniteHolders ==
  ASSUME TypeOK, Counts
  PROVE  /\ IsFiniteSet(reading) /\ IsFiniteSet(SavepointRefs)
         /\ IsFiniteSet(tracker.pending_non_durable_commits)
BY FiniteRefs DEF Counts

\* A step that keeps the references and the counts keeps Counts.
LEMMA CountsKept ==
  ASSUME TypeOK, TypeOK', Counts, SavepointRefs' = SavepointRefs, reading' = reading,
         tracker'.pending_non_durable_commits = tracker.pending_non_durable_commits,
         tracker'.live_read_transactions = tracker.live_read_transactions
  PROVE  Counts'
BY DEF Counts, RefCountExact, PendingOn

\* A step that adds one reference x and increments its count keeps Counts.
LEMMA CountsAdd ==
  ASSUME TypeOK, TypeOK', Counts, NEW x, x[2] \in TransactionId,
         \/ /\ x \notin SavepointRefs /\ SavepointRefs' = SavepointRefs \cup {x}
            /\ reading' = reading
            /\ tracker'.pending_non_durable_commits = tracker.pending_non_durable_commits
         \/ /\ x \notin reading /\ reading' = reading \cup {x}
            /\ SavepointRefs' = SavepointRefs
            /\ tracker'.pending_non_durable_commits = tracker.pending_non_durable_commits
         \/ /\ x \notin tracker.pending_non_durable_commits
            /\ tracker'.pending_non_durable_commits =
                 tracker.pending_non_durable_commits \cup {x}
            /\ SavepointRefs' = SavepointRefs /\ reading' = reading,
         tracker'.live_read_transactions =
           [tracker.live_read_transactions EXCEPT ![x[2]] = @ + 1]
  PROVE  Counts'
<1>1. /\ IsFiniteSet(reading) /\ IsFiniteSet(SavepointRefs)
      /\ IsFiniteSet(tracker.pending_non_durable_commits)
  BY FiniteHolders
<1>2. ASSUME NEW t \in TransactionId
      PROVE  Count(t)' = Cardinality(RefsOn(reading', t))
               + Cardinality(RefsOn(SavepointRefs', t))
               + Cardinality(RefsOn(tracker'.pending_non_durable_commits, t))
  <2>1. Count(t)' = Count(t) + (IF x[2] = t THEN 1 ELSE 0)
    BY FieldTypes DEF Count
  <2>2. /\ Count(t) = Cardinality(RefsOn(reading, t))
             + Cardinality(RefsOn(SavepointRefs, t))
             + Cardinality(RefsOn(tracker.pending_non_durable_commits, t))
        /\ Cardinality(RefsOn(reading, t)) \in Nat
        /\ Cardinality(RefsOn(SavepointRefs, t)) \in Nat
        /\ Cardinality(RefsOn(tracker.pending_non_durable_commits, t)) \in Nat
    BY <1>1, CountsByRefs, CountRefs
  <2>3. CASE x \notin SavepointRefs /\ SavepointRefs' = SavepointRefs \cup {x}
    <3>1. Cardinality(RefsOn(SavepointRefs \cup {x}, t)) =
            Cardinality(RefsOn(SavepointRefs, t)) + (IF x[2] = t THEN 1 ELSE 0)
      BY <1>1, <2>3, CountRefs, ZenonT(30)
    <3>. QED
      BY <2>1, <2>2, <2>3, <3>1
  <2>4. CASE x \notin reading /\ reading' = reading \cup {x}
    <3>1. Cardinality(RefsOn(reading \cup {x}, t)) =
            Cardinality(RefsOn(reading, t)) + (IF x[2] = t THEN 1 ELSE 0)
      BY <1>1, <2>4, CountRefs, ZenonT(30)
    <3>. QED
      BY <2>1, <2>2, <2>4, <3>1
  <2>5. CASE /\ x \notin tracker.pending_non_durable_commits
             /\ tracker'.pending_non_durable_commits =
                  tracker.pending_non_durable_commits \cup {x}
    <3>1. Cardinality(RefsOn(tracker.pending_non_durable_commits \cup {x}, t)) =
            Cardinality(RefsOn(tracker.pending_non_durable_commits, t))
              + (IF x[2] = t THEN 1 ELSE 0)
      BY <1>1, <2>5, CountRefs, ZenonT(30)
    <3>. QED
      BY <2>1, <2>2, <2>5, <3>1
  <2>. QED
    BY <2>3, <2>4, <2>5
<1>3. IsFiniteSet(reading')
  BY <1>1, CountRefs
<1>4. TypeOK' => (Counts' <=>
           /\ IsFiniteSet(reading')
           /\ \A t \in TransactionId :
                Count(t)' = Cardinality(RefsOn(reading', t))
                  + Cardinality(RefsOn(SavepointRefs', t))
                  + Cardinality(RefsOn(tracker'.pending_non_durable_commits, t)))
  BY DEF Counts, RefCountExact, Count, PendingOn, RefsOn
<1>. QED
  BY <1>2, <1>3, <1>4

\* A step that removes one reference x and decrements its count keeps Counts.
LEMMA CountsRemove ==
  ASSUME TypeOK, TypeOK', Counts, NEW x,
         \/ /\ x \in SavepointRefs /\ SavepointRefs' = SavepointRefs \ {x}
            /\ reading' = reading
         \/ /\ x \in reading /\ reading' = reading \ {x}
            /\ SavepointRefs' = SavepointRefs,
         tracker'.pending_non_durable_commits = tracker.pending_non_durable_commits,
         tracker'.live_read_transactions =
           [tracker.live_read_transactions EXCEPT ![x[2]] = @ - 1]
  PROVE  Counts'
<1>1. /\ IsFiniteSet(reading) /\ IsFiniteSet(SavepointRefs)
      /\ IsFiniteSet(tracker.pending_non_durable_commits)
  BY FiniteHolders
<1>2. ASSUME NEW t \in TransactionId
      PROVE  Count(t)' = Cardinality(RefsOn(reading', t))
               + Cardinality(RefsOn(SavepointRefs', t))
               + Cardinality(RefsOn(tracker'.pending_non_durable_commits, t))
  <2>1. Count(t)' = Count(t) - (IF x[2] = t THEN 1 ELSE 0)
    BY FieldTypes DEF Count
  <2>2. /\ Count(t) = Cardinality(RefsOn(reading, t))
             + Cardinality(RefsOn(SavepointRefs, t))
             + Cardinality(RefsOn(tracker.pending_non_durable_commits, t))
        /\ Cardinality(RefsOn(reading, t)) \in Nat
        /\ Cardinality(RefsOn(SavepointRefs, t)) \in Nat
        /\ Cardinality(RefsOn(tracker.pending_non_durable_commits, t)) \in Nat
    BY <1>1, CountsByRefs, CountRefs
  <2>3. CASE x \in SavepointRefs /\ SavepointRefs' = SavepointRefs \ {x}
    <3>1. Cardinality(RefsOn(SavepointRefs \ {x}, t)) =
            Cardinality(RefsOn(SavepointRefs, t)) - (IF x[2] = t THEN 1 ELSE 0)
      BY <1>1, <2>3, CountRefs, ZenonT(30)
    <3>. QED
      BY <2>1, <2>2, <2>3, <3>1
  <2>4. CASE x \in reading /\ reading' = reading \ {x}
    <3>1. Cardinality(RefsOn(reading \ {x}, t)) =
            Cardinality(RefsOn(reading, t)) - (IF x[2] = t THEN 1 ELSE 0)
      BY <1>1, <2>4, CountRefs, ZenonT(30)
    <3>. QED
      BY <2>1, <2>2, <2>4, <3>1
  <2>. QED
    BY <2>3, <2>4
<1>3. IsFiniteSet(reading')
  BY <1>1, CountRefs
<1>4. TypeOK' => (Counts' <=>
           /\ IsFiniteSet(reading')
           /\ \A t \in TransactionId :
                Count(t)' = Cardinality(RefsOn(reading', t))
                  + Cardinality(RefsOn(SavepointRefs', t))
                  + Cardinality(RefsOn(tracker'.pending_non_durable_commits, t)))
  BY DEF Counts, RefCountExact, Count, PendingOn, RefsOn
<1>. QED
  BY <1>2, <1>3, <1>4

\* Counts is preserved when references of savepoints are created or released.
LEMMA CountsReferenceStep ==
  ASSUME TypeOK, TypeOK', Phases, RowPhases, Rows, Newest, Counts, ReferenceStep
  PROVE  Counts'
<1>1. tracker \in State
  BY DEF TypeOK
<1>2. ASSUME NEW w \in Writers, SavepointRegister(w) PROVE Counts'
  <2>1. PICK b \in Row : /\ b[2] = latest /\ b \notin SavepointRefs
                         /\ SavepointRefs' = SavepointRefs \cup {b}
    BY <1>2, RefsAdded
  <2>2. /\ reading' = reading
        /\ tracker'.pending_non_durable_commits =
             tracker.pending_non_durable_commits
        /\ tracker'.live_read_transactions =
             [tracker.live_read_transactions EXCEPT ![latest] = @ + 1]
    BY <1>1, <1>2, RegisterFields DEF reference, State
  <2>3. latest \in TransactionId
    BY DEF TypeOK
  <2>. QED
    BY <2>1, <2>2, <2>3, CountsAdd
<1>3. ASSUME NEW row,
             \/ row \in dropping /\ DropRelease(row)
             \/ \E w \in Writers : ReleaseReference(w, row)
      PROVE  Counts'
  <2>1. row \in SavepointRefs /\ SavepointRefs' = SavepointRefs \ {row}
    BY <1>3, RefsRemoved
  <2>2. reading' = reading /\ tracker' = deallocate_read_transaction(tracker, row[2])
    BY <1>3 DEF DropRelease, ReleaseReference
  <2>3. /\ tracker'.pending_non_durable_commits =
             tracker.pending_non_durable_commits
        /\ tracker'.live_read_transactions =
             [tracker.live_read_transactions EXCEPT ![row[2]] = @ - 1]
    BY <1>1, <2>2 DEF deallocate_read_transaction, State
  <2>. QED
    BY <2>1, <2>2, <2>3, CountsRemove
<1>4. ASSUME NEW repaired \in BOOLEAN, Reopen(repaired) PROVE Counts'
  <2>1. /\ tracker'.pending_non_durable_commits = {} /\ reading' = {}
        /\ \A t \in TransactionId : tracker'.live_read_transactions[t] =
             Cardinality({row \in table : row[2] = t})
    BY <1>4, ReopenedIds
  <2>2. SavepointRefs' = table
    BY <1>4, RefsReopened
  <2>3. ASSUME NEW t \in TransactionId
        PROVE  tracker'.live_read_transactions[t] =
                 Cardinality(RefsOn(reading', t))
                   + Cardinality(RefsOn(SavepointRefs', t))
                   + Cardinality(PendingOn(tracker', t))
    <3>1. RefsOn(reading', t) = {} /\ PendingOn(tracker', t) = {}
      BY <2>1 DEF RefsOn, PendingOn
    <3>2. /\ RefsOn(SavepointRefs', t) = {row \in table : row[2] = t}
          /\ Cardinality(RefsOn(SavepointRefs', t)) \in Nat
      <4>1. IsFiniteSet(table)
        BY FiniteRow, FS_Subset DEF TypeOK
      <4>2. Cardinality(RefsOn(SavepointRefs', t)) \in Nat
        BY <2>2, <4>1, CountRefs
      <4>. QED
        BY <2>2, <4>2 DEF RefsOn
    <3>3. /\ Cardinality(RefsOn(reading', t)) = 0
          /\ Cardinality(PendingOn(tracker', t)) = 0
      BY <3>1, FS_EmptySet
    <3>. QED
      BY <2>1, <3>2, <3>3
  <2>4. IsFiniteSet(reading')
    BY <2>1, FS_EmptySet
  <2>. QED
    BY <2>3, <2>4 DEF Counts, RefCountExact
<1>. QED
  BY <1>2, <1>3, <1>4, Zenon DEF ReferenceStep

\* Counts is preserved when non-durable commits are registered or cleared.
LEMMA CountsPendingStep ==
  ASSUME TypeOK, TypeOK', Phases, Pending, Counts, SavepointRefs' = SavepointRefs,
         NEW w \in Writers,
         ClearPending(w) \/ RegisterNonDurable(w) \/ EpilogueRegister(w)
  PROVE  Counts'
<1>1. tracker \in State
  BY DEF TypeOK
<1>2. reading' = reading
  BY DEF ClearPending, RegisterNonDurable, EpilogueRegister
<1>3. CASE ClearPending(w)
  <2>1. /\ tracker'.pending_non_durable_commits = {}
        /\ \A t \in TransactionId : tracker'.live_read_transactions[t] =
             tracker.live_read_transactions[t] - Cardinality(PendingOn(tracker, t))
    BY <1>1, <1>3 DEF ClearPending, clear_pending_non_durable_commits, State
  <2>2. \A t \in TransactionId : Cardinality(PendingOn(tracker', t)) = 0
    <3>1. \A t \in TransactionId : PendingOn(tracker', t) = {}
      BY <2>1 DEF PendingOn
    <3>. QED
      BY <3>1, FS_EmptySet
  <2>3. ASSUME NEW t \in TransactionId
        PROVE  tracker'.live_read_transactions[t] =
                 Cardinality(RefsOn(reading, t))
                   + Cardinality(RefsOn(SavepointRefs, t))
                   + Cardinality(PendingOn(tracker', t))
    BY <2>1, <2>2, CountOf
  <2>. QED
    BY <1>2, <2>3 DEF Counts, RefCountExact
<1>4. CASE RegisterNonDurable(w)
  <2>1. PICK x : x = <<tracker.live_write_transaction, durable>>
    BY Zenon
  <2>2. x \notin tracker.pending_non_durable_commits
    <3>1. wpc[w] = "nondurable"
      BY <1>4 DEF RegisterNonDurable
    <3>2. \A c \in tracker.pending_non_durable_commits :
            c[1] < tracker.live_write_transaction
      BY <3>1, Zenon DEF Pending
    <3>. QED
      BY <2>1, <3>2, Ids
  <2>3. /\ tracker'.pending_non_durable_commits =
             tracker.pending_non_durable_commits \cup {x}
        /\ tracker'.live_read_transactions =
             [tracker.live_read_transactions EXCEPT ![durable] = @ + 1]
    BY <1>1, <1>4, <2>1, Zenon
       DEF RegisterNonDurable, register_non_durable_commit, reference, State
  <2>4. durable \in TransactionId /\ x[2] = durable
    BY <2>1 DEF TypeOK
  <2>. QED
    BY <1>2, <2>2, <2>3, <2>4, CountsAdd
<1>5. CASE EpilogueRegister(w)
  <2>1. PICK x : x = <<latest, tracker.live_write_transaction>>
    BY Zenon
  <2>2. tracker.pending_non_durable_commits = {}
    <3>1. wpc[w] = "reserved"
      BY <1>5 DEF EpilogueRegister
    <3>2. txn.durability = "Immediate"
      BY <3>1 DEF Phases, PhaseIds
    <3>. QED
      BY <3>1, <3>2, Zenon DEF Pending
  <2>3. /\ tracker'.pending_non_durable_commits =
             tracker.pending_non_durable_commits \cup {x}
        /\ tracker'.live_read_transactions = [tracker.live_read_transactions
             EXCEPT ![tracker.live_write_transaction] = @ + 1]
    BY <1>1, <1>5, <2>1, Zenon
       DEF EpilogueRegister, register_non_durable_commit, reference, State
  <2>4. /\ tracker.live_write_transaction \in TransactionId
        /\ x[2] = tracker.live_write_transaction
    BY <2>1, FieldTypes
  <2>. QED
    BY <1>2, <2>2, <2>3, <2>4, CountsAdd
<1>. QED
  BY <1>3, <1>4, <1>5

\* Counts is preserved by every step.
LEMMA CountsStep ==
  ASSUME TypeOK, TypeOK', Phases, RowPhases, Rows, Newest, Pending, Counts,
         [Next]_vars
  PROVE  Counts'
<1>1. CASE ReferenceStep
  BY <1>1, CountsReferenceStep
<1>2. CASE ~ReferenceStep
  <2>1. tracker \in State
    BY DEF TypeOK
  <2>2. SavepointRefs' = SavepointRefs
    BY <1>2, RefsKept
  <2>3. ASSUME NEW r \in Readers, BeginRead(r) PROVE Counts'
    <3>1. PICK x : x = <<r, latest>>
      BY Zenon
    <3>2. x \notin reading /\ reading' = reading \cup {x}
      BY <2>3, <3>1 DEF BeginRead
    <3>3. /\ tracker'.pending_non_durable_commits =
               tracker.pending_non_durable_commits
          /\ tracker'.live_read_transactions =
               [tracker.live_read_transactions EXCEPT ![latest] = @ + 1]
      BY <2>1, <2>3 DEF BeginRead, register_read_transaction, reference, State
    <3>4. latest \in TransactionId /\ x[2] = latest
      BY <3>1 DEF TypeOK
    <3>. QED
      BY <2>2, <3>2, <3>3, <3>4, CountsAdd
  <2>4. ASSUME NEW g \in reading, EndRead(g) PROVE Counts'
    <3>1. /\ reading' = reading \ {g}
          /\ tracker'.pending_non_durable_commits =
               tracker.pending_non_durable_commits
          /\ tracker'.live_read_transactions =
               [tracker.live_read_transactions EXCEPT ![g[2]] = @ - 1]
      BY <2>1, <2>4 DEF EndRead, deallocate_read_transaction, State
    <3>. QED
      BY <2>2, <3>1, CountsRemove
  <2>5. ASSUME NEW w \in Writers,
               ClearPending(w) \/ RegisterNonDurable(w) \/ EpilogueRegister(w)
        PROVE  Counts'
    BY <2>2, <2>5, CountsPendingStep
  <2>6. ASSUME NEW w \in Writers,
               \/ Wait(w) \/ SpuriousWakeup(w) \/ EndWrite(w) \/ MemCommit(w)
               \/ \E durability \in {"Immediate", "None"} :
                    set_durability(w, durability)
               \/ MemNonDurableCommit(w) \/ EpilogueSkip(w)
               \/ EpiloguePublish(w) \/ EpilogueReserve(w) \/ AbortDone(w)
        PROVE  Counts'
    <3>1. \/ tracker' = tracker
          \/ tracker' = end_write_transaction(tracker)
          \/ tracker' = reserve_transaction_id(tracker, latest)
      BY <2>6 DEF Wait, SpuriousWakeup, EndWrite, set_durability, MemCommit,
                  MemNonDurableCommit, EpilogueSkip, EpiloguePublish,
                  EpilogueReserve, AbortDone
    <3>2. reading' = reading
      BY <2>6 DEF Wait, SpuriousWakeup, EndWrite, set_durability, MemCommit,
                  MemNonDurableCommit, EpilogueSkip, EpiloguePublish,
                  EpilogueReserve, AbortDone
    <3>3. /\ tracker'.pending_non_durable_commits =
               tracker.pending_non_durable_commits
          /\ tracker'.live_read_transactions = tracker.live_read_transactions
      BY <2>1, <3>1 DEF end_write_transaction, reserve_transaction_id, State
    <3>. QED
      BY <2>2, <3>2, <3>3, CountsKept, SMTT(20)
  <2>7. ASSUME NEW w \in Writers,
               \/ StartWrite(w) \/ SavepointAllocate(w) \/ SavepointReturn(w)
               \/ SavepointPersist(w)
               \/ \E row \in View : delete_persistent_savepoint(w, row)
               \/ \E sp \in SavepointId : restore_savepoint(w, sp)
               \/ \E row \in txn.created \cup txn.deleted : ReleaseInvalidate(w, row)
               \/ ApplyInvalidated(w) \/ Abort(w)
        PROVE  Counts'
    <3>1. /\ reading' = reading
          /\ tracker'.pending_non_durable_commits =
               tracker.pending_non_durable_commits
          /\ tracker'.live_read_transactions = tracker.live_read_transactions
      BY <2>7, StartFields, AllocateFields, ReturnFields, PersistFields,
         DeleteFields, ReleaseInvalidateFields, ApplyFields, AbortFields
    <3>. QED
      BY <2>2, <3>1, CountsKept, SMTT(20)
  <2>8. ASSUME NEW row \in handles, DropInvalidate(row) PROVE Counts'
    BY <2>2, <2>8, DropFields, CountsKept
  <2>9. CASE UNCHANGED vars
    BY <2>2, <2>9, CountsKept DEF vars
  <2>. QED
    BY <1>2, <2>3, <2>4, <2>5, <2>6, <2>7, <2>8, <2>9, NextCases, Zenon
       DEF SavepointStep, ReferenceStep, ReaderStep, WriterStep
<1>. QED
  BY <1>1, <1>2

-----------------------------------------------------------------------------
(* Theorems *)

\* The initial state, a new database without savepoints, satisfies IInv.
LEMMA InitIInv == Init => IInv
<1> SUFFICES ASSUME Init PROVE IInv
  OBVIOUS
<1>1. /\ {0, 1, 3} \subseteq TransactionId /\ 0 \in SavepointId
      /\ NoTxn \in TransactionId
      /\ [t \in TransactionId |-> 0] \in [TransactionId -> Nat]
  BY TrackerBounds DEF TransactionId, SavepointId, NoTxn
<1>2. TypeOK
  <2>1. new(3) \in State
    BY <1>1 DEF new, State
  <2>. QED
    BY <1>1, <2>1, EmptyTypes DEF Init, TypeOK, Starting
<1>3. Phases
  BY DEF Init, new, Phases, Exclusive, PhaseIds, Owning, NoTxn
<1>4. RowPhases /\ Rows /\ Newest /\ Valid
  BY DEF Init, new, EmptyTxn, NoSavepoint, RowPhases, PhaseRows, Rows, Settled,
         Newest, Valid
<1>5. Pending
  BY DEF Init, new, Pending
<1>6. Counts
  <2>1. SavepointRefs = {} /\ reading = {}
    BY DEF Init, EmptyTxn, NoSavepoint, SavepointRefs, Building
  <2>2. \A t \in TransactionId : RefsOn(reading, t) = {} /\ RefsOn(SavepointRefs, t) = {}
                                   /\ PendingOn(tracker, t) = {}
    BY <2>1 DEF Init, new, RefsOn, PendingOn
  <2>3. \A t \in TransactionId : tracker.live_read_transactions[t] = 0
    BY DEF Init, new
  <2>. QED
    BY <2>1, <2>2, <2>3, FS_EmptySet DEF Counts, RefCountExact
<1>. QED
  BY <1>2, <1>3, <1>4, <1>5, <1>6 DEF IInv

\* IInv is an invariant of the system.
THEOREM Invariance == Spec => []IInv
<1>1. IInv /\ [Next]_vars => IInv'
  <2> SUFFICES ASSUME IInv, [Next]_vars PROVE IInv'
    OBVIOUS
  <2>1. /\ TypeOK /\ Phases /\ RowPhases /\ Rows /\ Newest /\ Valid /\ Pending
        /\ Counts
    BY DEF IInv
  <2>2. TypeOK'
    BY <2>1, TypeStep
  <2>3. Phases' /\ RowPhases' /\ Pending'
    BY <2>1, PhasesStep, RowPhasesStep, PendingStep
  <2>4. Rows' /\ Newest' /\ Valid'
    BY <2>1, <2>2, RowsStep, NewestStep, ValidStep
  <2>5. Counts'
    BY <2>1, <2>2, CountsStep
  <2>. QED
    BY <2>2, <2>3, <2>4, <2>5 DEF IInv
<1>. QED
  BY InitIInv, <1>1, PTL DEF Spec

\* Type correctness: in particular no reference count underflows in
\* deallocate_read_transaction or clear_pending_non_durable_commits.
THEOREM TypeCorrect == Spec => []TypeOK
<1>1. IInv => TypeOK
  BY DEF IInv
<1>. QED
  BY <1>1, Invariance, PTL

\* Reference counts are exact: each key of live_read_transactions counts the
\* read transactions, savepoints and pending non-durable commits that hold it.
THEOREM ReferencesExact == Spec => []RefCountExact
<1>1. IInv => RefCountExact
  BY DEF IInv, Counts
<1>. QED
  BY <1>1, Invariance, PTL

\* A savepoint that restore_savepoint accepts is always pinned.
THEOREM SavepointsStayPinned == Spec => []ValidSavepointsPinned
<1>1. IInv => ValidSavepointsPinned
  <2> SUFFICES ASSUME IInv, NEW v \in tracker.valid_savepoints
               PROVE  v \in SavepointRefs /\ v[2] \in live_transactions(tracker)
    BY DEF ValidSavepointsPinned
  <2>1. v \in SavepointRefs
    BY DEF IInv, Valid
  <2>2. v[2] \in TransactionId /\ tracker.live_read_transactions[v[2]] \in Nat \ {0}
    BY <2>1, Referenced DEF IInv
  <2>3. v[2] \in live_transactions(tracker)
    BY <2>2, FieldTypes DEF IInv, live_transactions
  <2>. QED
    BY <2>1, <2>3
<1>. QED
  BY <1>1, Invariance, PTL

\* Non-durable commits keep the last durable transaction pinned, so that pages
\* of the state to which a crash returns are not reclaimed.
THEOREM DurableStaysPinned == Spec => []DurableAncestorPinned
<1>1. IInv => DurableAncestorPinned
  <2> SUFFICES ASSUME IInv PROVE DurableAncestorPinned
    OBVIOUS
  <2>1. ASSUME NEW c \in tracker.pending_non_durable_commits
        PROVE  c[2] <= durable /\ c[2] \in live_transactions(tracker)
    <3>1. c[2] \in TransactionId
      BY FieldTypes DEF IInv
    <3>2. tracker.live_read_transactions[c[2]] > 0
      BY <3>1, CountOf DEF IInv
    <3>. QED
      BY <3>1, <3>2, FieldTypes DEF IInv, Pending, live_transactions
  <2>2. ASSUME tracker.pending_non_durable_commits # {},
               \A w \in Writers : wpc[w] # "committed"
        PROVE  durable \in live_transactions(tracker)
    BY <2>1, <2>2 DEF IInv, Pending
  <2>. QED
    BY <2>1, <2>2 DEF DurableAncestorPinned
<1>. QED
  BY <1>1, Invariance, PTL

\* There is one writer at a time, and its id is newer than what it builds on.
THEOREM WritersExclude == Spec => []SingleWriter
<1>1. IInv => SingleWriter
  BY DEF IInv, Phases, Exclusive, PhaseIds, SingleWriter
<1>. QED
  BY <1>1, Invariance, PTL

\* The assertions of the tracker hold whenever they are reached.
THEOREM AssertionsNeverFail == Spec => []AssertionsHold
<1>1. IInv => AssertionsHold
  <2> SUFFICES ASSUME IInv PROVE AssertionsHold
    OBVIOUS
  <2>1. ASSUME NEW w \in Writers
        PROVE  /\ wpc[w] = "ending" => tracker.live_write_transaction # NoTxn
               /\ wpc[w] = "published" => latest = tracker.next_transaction_id + 1
               /\ wpc[w] = "nondurable" =>
                    tracker.live_write_transaction \notin PendingIds(tracker)
               /\ wpc[w] = "reserved" => latest \notin PendingIds(tracker)
    <3>1. wpc[w] = "nondurable" =>
            tracker.live_write_transaction \notin PendingIds(tracker)
      BY FieldTypes, TrackerBounds DEF IInv, Pending, PendingIds, TransactionId
    <3>2. wpc[w] = "reserved" => latest \notin PendingIds(tracker)
      BY DEF IInv, Pending, Phases, PhaseIds, PendingIds
    <3>. QED
      BY <3>1, <3>2 DEF IInv, Phases, Exclusive, PhaseIds, Owning
  <2>2. txn.building.stage = "allocated" =>
          is_valid_savepoint(tracker, txn.building.sp)
    BY DEF IInv, Valid, is_valid_savepoint, ValidIds
  <2>. QED
    BY <2>1, <2>2 DEF AssertionsHold
<1>. QED
  BY <1>1, Invariance, PTL

\* Savepoint ids are ordered like the transactions they pin, which makes
\* oldest_savepoint_excluding the savepoint horizon.
THEOREM SavepointsOrdered == Spec => []SavepointOrder
<1>1. IInv => SavepointOrder
  <2> SUFFICES ASSUME IInv, NEW u \in tracker.valid_savepoints,
                      NEW v \in tracker.valid_savepoints, u[1] < v[1]
               PROVE  u[2] <= v[2]
    BY DEF SavepointOrder
  <2>1. u \in Settled \cup Building /\ v \in Settled \cup Building
    BY DEF IInv, Valid, SavepointRefs, Settled
  <2>2. CASE u \in Settled /\ v \in Settled
    BY <2>2 DEF IInv, Rows
  <2>3. CASE u \in Settled /\ v \in Building
    BY <2>3 DEF IInv, Newest, Building
  <2>4. CASE u \in Building /\ v \in Settled
    <3>1. v[1] < u[1] /\ v[1] \in Nat
      BY <2>4, RowIds DEF IInv, Newest, Building
    <3>2. u[1] \in Nat
      BY <2>4, FieldTypes, TrackerBounds DEF IInv, Building, SavepointId
    <3>. QED
      BY <3>1, <3>2
  <2>5. CASE u \in Building /\ v \in Building
    <3>1. u = v /\ u[2] = txn.building.id
      BY <2>5 DEF Building
    <3>2. txn.building.id \in TransactionId
      BY FieldTypes DEF IInv
    <3>. QED
      BY <3>1, <3>2, TrackerBounds DEF TransactionId
  <2>. QED
    BY <2>1, <2>2, <2>3, <2>4, <2>5
<1>. QED
  BY <1>1, Invariance, PTL

\* compact() sees every reader and every savepoint, and no pin.
THEOREM UserReferencesExact == Spec => []UserReferencesSeen
<1>1. IInv => UserReferencesSeen
  <2> SUFFICES ASSUME IInv PROVE UserReferencesSeen
    OBVIOUS
  <2>1. ASSUME NEW x \in reading \cup SavepointRefs
        PROVE  any_user_read_reference_exists(tracker)
    <3>1. x[2] \in TransactionId
      BY Referenced DEF IInv
    <3>2. /\ tracker.live_read_transactions[x[2]] >
               Cardinality(PendingOn(tracker, x[2]))
          /\ tracker.live_read_transactions[x[2]] > 0
      BY <3>1, CountOf DEF IInv
    <3>. QED
      BY <3>1, <3>2, FieldTypes
         DEF IInv, any_user_read_reference_exists, live_transactions
  <2>2. ASSUME reading = {}, SavepointRefs = {}
        PROVE  ~any_user_read_reference_exists(tracker)
    <3>1. \A t \in TransactionId : RefsOn(reading, t) = {} /\ RefsOn(SavepointRefs, t) = {}
      BY <2>2 DEF RefsOn
    <3>2. \A t \in TransactionId : tracker.live_read_transactions[t] =
                                     Cardinality(PendingOn(tracker, t))
      <4>1. ASSUME NEW t \in TransactionId
            PROVE  tracker.live_read_transactions[t] =
                     Cardinality(PendingOn(tracker, t))
        <5>1. Cardinality(RefsOn(reading, t)) = 0
          BY <3>1, FS_EmptySet
        <5>2. Cardinality(RefsOn(SavepointRefs, t)) = 0
          BY <3>1, FS_EmptySet
        <5>. QED
          BY <5>1, <5>2, CountOf DEF IInv
      <4>. QED
        BY <4>1
    <3>3. \A t \in TransactionId : Cardinality(PendingOn(tracker, t)) \in Nat
      BY CountOf DEF IInv
    <3>. QED
      BY <3>2, <3>3, FieldTypes
         DEF IInv, any_user_read_reference_exists, live_transactions
  <2>. QED
    BY <2>1, <2>2 DEF UserReferencesSeen
<1>. QED
  BY <1>1, Invariance, PTL

\* No wakeup is lost: a waiting writer has a live transaction to wait for, or
\* some writer has been notified and will look again.
THEOREM WakeupsNotLost == Spec => []NoLostWakeup
<1>1. Init => NoLostWakeup
  BY DEF Init, NoLostWakeup
<1>2. IInv /\ NoLostWakeup /\ [Next]_vars => NoLostWakeup'
  <2> SUFFICES ASSUME IInv, NoLostWakeup, [Next]_vars PROVE NoLostWakeup'
    OBVIOUS
  <2>0. ASSUME tracker'.live_write_transaction = tracker.live_write_transaction,
               \A v \in Writers : wpc'[v] = "waiting" => wpc[v] = "waiting",
               \A v \in Writers : wpc[v] = "woken" => wpc'[v] = "woken"
        PROVE  NoLostWakeup'
    BY <2>0 DEF NoLostWakeup
  <2>1. TypeOK /\ Phases
    BY DEF IInv
  <2>2. wpc = [v \in Writers |-> wpc[v]] /\ tracker \in State
    BY <2>1, Ids DEF TypeOK
  <2>3. CASE SavepointStep \/ ReaderStep
    BY <2>0, <2>1, <2>3, WriterKeptStep DEF WriterKept
  <2>4. ASSUME NEW w \in Writers, Wait(w) PROVE NoLostWakeup'
    BY <2>2, <2>4 DEF Wait, NoLostWakeup
  <2>5. ASSUME NEW w \in Writers, SpuriousWakeup(w) PROVE NoLostWakeup'
    BY <2>2, <2>5 DEF SpuriousWakeup, NoLostWakeup
  <2>6. ASSUME NEW w \in Writers, StartWrite(w) PROVE NoLostWakeup'
    <3>1. tracker'.live_write_transaction = tracker.next_transaction_id + 1
      BY <2>2, <2>6 DEF StartWrite, start_write_transaction, State
    <3>2. tracker'.live_write_transaction # NoTxn
      BY <2>1, <3>1, Ids DEF NoTxn
    <3>. QED
      BY <3>2 DEF NoLostWakeup
  <2>7. ASSUME NEW w \in Writers, EndWrite(w) PROVE NoLostWakeup'
    BY <2>1, <2>7, EndWritePhases DEF Phases, NoLostWakeup
  <2>8. ASSUME NEW w \in Writers,
               \/ MemCommit(w) \/ ApplyInvalidated(w) \/ Abort(w)
               \/ \E durability \in {"Immediate", "None"} :
                    set_durability(w, durability)
               \/ ClearPending(w) \/ MemNonDurableCommit(w)
               \/ RegisterNonDurable(w) \/ EpilogueSkip(w)
               \/ EpiloguePublish(w) \/ EpilogueReserve(w)
               \/ EpilogueRegister(w) \/ AbortDone(w)
        PROVE  NoLostWakeup'
    <3>1. wpc[w] \in Owning
      BY <2>8 DEF MemCommit, ApplyInvalidated, Abort, set_durability,
                  ClearPending, MemNonDurableCommit, RegisterNonDurable,
                  EpilogueSkip, EpiloguePublish, EpilogueReserve,
                  EpilogueRegister, AbortDone, Owning
    <3>2. \/ tracker' = tracker
          \/ \E sps : tracker' = invalidate_savepoints(tracker, sps)
          \/ tracker' = clear_pending_non_durable_commits(tracker)
          \/ \E id : tracker' = reserve_transaction_id(tracker, id)
          \/ \E id, ancestor, unprocessed : tracker' =
               register_non_durable_commit(tracker, id, ancestor, unprocessed)
      BY <2>8, ZenonT(30)
         DEF MemCommit, ApplyInvalidated, Abort, set_durability, ClearPending,
             MemNonDurableCommit, RegisterNonDurable, EpilogueSkip,
             EpiloguePublish, EpilogueReserve, EpilogueRegister, AbortDone
    <3>3. tracker'.live_write_transaction = tracker.live_write_transaction
      BY <2>2, <3>2, Zenon
         DEF invalidate_savepoints, clear_pending_non_durable_commits,
             reserve_transaction_id, register_non_durable_commit, reference,
             State
    <3>. QED
      BY <2>1, <3>1, <3>3 DEF Phases, Exclusive, NoLostWakeup
  <2>9. ASSUME NEW repaired \in BOOLEAN, Reopen(repaired) PROVE NoLostWakeup'
    BY <2>1, <2>9, ReopenedIds DEF NoLostWakeup
  <2>. QED
    BY <2>3, <2>4, <2>5, <2>6, <2>7, <2>8, <2>9, NextCases, Zenon
       DEF WriterStep
<1>. QED
  BY <1>1, <1>2, Invariance, PTL DEF Spec

=============================================================================
