-------------------------- MODULE CommitProtocol --------------------------
(***************************************************************************)
(* How a commit reaches the disk and how the next open finds it again:     *)
(* TransactionalMemory::{new, commit, non_durable_commit, close, ...} of   *)
(* page_manager.rs, the header of header.rs and Database::new of db.rs.    *)
(*                                                                         *)
(* The disk.  `file` is what the process reads back (its write buffer and  *)
(* the operating system's cache included); `media` holds, for every part   *)
(* of the file, the set of contents that a power failure can leave there:  *)
(* the value at the last fsync and every value written since.  An fsync    *)
(* makes the set a singleton.  The god byte is written atomically; a page  *)
(* or a commit slot may also be torn.                                      *)
(*                                                                         *)
(* The data.  A tree (user or system) is one page carrying a stamp that is *)
(* unique to the transaction that wrote it; a root names the page and the  *)
(* stamp, as a Merkle root names a page and a checksum.  A tree verifies   *)
(* when the page carries the stamp.  Which pages a transaction may write   *)
(* is the business of module Reclamation: pages of the durable root and of *)
(* the latest root are never reused.                                       *)
(***************************************************************************)
EXTENDS Integers, FiniteSets

CONSTANTS Pages,        \* data pages of the file
          NoPage,       \* the page of an empty tree
          MaxStamp,     \* bound on the number of write transactions
          MaxSessions,  \* bound on sessions that end: close, crash, aborted repair
          TearSlots     \* a torn slot mixes old and new fields

ASSUME ProtocolConstants ==
  /\ NoPage \notin Pages
  /\ MaxStamp \in Nat /\ MaxSessions \in Nat
  /\ TearSlots \in BOOLEAN

VARIABLES file, media, mem, pc, next_id, stamp, acked, inflight, sessions

vars == <<file, media, mem, pc, next_id, stamp, acked, inflight, sessions>>

Torn == -1
Stamp == 0 .. MaxStamp
\* An open takes up to four ids: the repair commit, the tracker's first id, the
\* internal transaction, and the gap to the next one.
Id == 0 .. MaxStamp + 4 * (MaxSessions + 1)
NoRoot == [page |-> NoPage, stamp |-> 0, alloc |-> 0]

\* `alloc` is the transaction id in the allocator state table, 0 if the system
\* tree has no such table.
Root == [page : Pages \cup {NoPage}, stamp : Stamp, alloc : Id]

\* `ok`: the slot's checksum matches its contents.
Slot == [transaction_id : Id, user_root : Root, system_root : Root, ok : BOOLEAN]

God == [primary : 0..1, recovery_required : BOOLEAN, two_phase_commit : BOOLEAN]

\* DatabaseHeader in memory, with InMemoryState::read_from_secondary.
Header == [god : God, slots : [0..1 -> Slot], read_from_secondary : BOOLEAN]

primary_slot(h) == h.slots[h.god.primary]
secondary_slot(h) == h.slots[1 - h.god.primary]
latest_slot(h) == IF h.read_from_secondary THEN secondary_slot(h)
                  ELSE primary_slot(h)
\* Faulty variant: the slot index is not wrapped.
swap_primary_slot_Unwrapped(h) == [h EXCEPT !.god.primary = 1 + @]

swap_primary_slot(h) == [h EXCEPT !.god.primary = 1 - @]

\* The state of the database that a slot stands for.
Version(s) == <<s.user_root.stamp, s.system_root.stamp>>

Versions == Stamp \X Stamp

verify_checksums(s) ==
  \A r \in {s.user_root, s.system_root} :
     r.page # NoPage => file.pages[r.page] = r.stamp

EmptySlot == [transaction_id |-> 0, user_root |-> NoRoot,
              system_root |-> NoRoot, ok |-> TRUE]

\* A file that was just created: TransactionalMemory::new has written the
\* header twice, with and without the magic number, and synced it.
CreatedFile ==
  [god |-> [primary |-> 0, recovery_required |-> FALSE,
            two_phase_commit |-> TRUE],
   slots |-> [i \in 0..1 |-> EmptySlot],
   pages |-> [p \in Pages |-> 0]]

\* What fsync leaves of the alternatives.
Synced(f) ==
  [god |-> {f.god}, slots |-> [i \in 0..1 |-> {f.slots[i]}],
   pages |-> [p \in Pages |-> {f.pages[p]}]]

NoHeader == [god |-> CreatedFile.god, slots |-> CreatedFile.slots,
             read_from_secondary |-> FALSE]

Init ==
  /\ file = CreatedFile
  /\ media = Synced(CreatedFile)
  /\ mem = NoHeader
  /\ pc = "down"
  /\ next_id = 0
  /\ stamp = 0
  /\ acked = <<0, 0>>
  /\ inflight = {}
  /\ sessions = 0

-----------------------------------------------------------------------------
(* Writing and syncing *)

\* to_bytes computes the checksum of both slots afresh, whatever from_bytes
\* found when it read them.
to_bytes(f, h) ==
  [f EXCEPT !.god = h.god,
            !.slots = [i \in 0..1 |-> [h.slots[i] EXCEPT !.ok = TRUE]]]

\* The alternatives after file f has been overwritten by g without an fsync.
Written(m, g) ==
  [god |-> m.god \cup {g.god},
   slots |-> [i \in 0..1 |-> m.slots[i] \cup {g.slots[i]}],
   pages |-> [p \in Pages |-> m.pages[p] \cup {g.pages[p]}]]

\* write_header with nothing else pending.
write_header(h) ==
  /\ file' = to_bytes(file, h)
  /\ media' = Written(media, to_bytes(file, h))

\* flush: everything written so far is durable ...
flush == /\ media' = Synced(file)
         /\ UNCHANGED file

\* ... and flush followed by the next write_header.
flush_then_write(h) ==
  /\ file' = to_bytes(file, h)
  /\ media' = Written(Synced(file), to_bytes(file, h))

-----------------------------------------------------------------------------
(* Crashes *)

\* Contents a crash may leave in a slot: one of the values written, or a mix
\* of their fields, whose checksum is then wrong.
CrashSlots(S) ==
  LET mixes == [transaction_id : {s.transaction_id : s \in S},
                user_root : {s.user_root : s \in S},
                system_root : {s.system_root : s \in S}, ok : {FALSE}]
      whole == {[s EXCEPT !.ok = FALSE] : s \in S}
  IN  IF TearSlots THEN S \cup (mixes \ whole)
      ELSE IF Cardinality(S) > 1 THEN S \cup whole ELSE S

\* What may be found in the pages: those written since the last fsync hold
\* anything between the old and the new contents.
CrashPages ==
  LET unsynced == {p \in Pages : Cardinality(media.pages[p]) > 1}
      lost == {f \in [unsynced -> Stamp \cup {Torn}] :
                 \A p \in unsynced : f[p] \in media.pages[p] \cup {Torn}}
  IN  {[p \in Pages |-> IF p \in unsynced THEN f[p] ELSE file.pages[p]] : f \in lost}

CrashFiles ==
  {[god |-> g, slots |-> [i \in 0..1 |-> IF i = 0 THEN s0 ELSE s1], pages |-> ps] :
     g \in media.god, s0 \in CrashSlots(media.slots[0]),
     s1 \in CrashSlots(media.slots[1]), ps \in CrashPages}

\* The process dies, with the machine (power) or alone.  In the second case
\* what it had written is still in flight.
Crash(power) ==
  /\ pc \notin {"down", "failed"}
  /\ sessions < MaxSessions
  /\ file' \in CrashFiles
  /\ media' = IF power THEN Synced(file') ELSE Written(media, file')
  /\ pc' = "down"
  /\ mem' = NoHeader
  /\ sessions' = sessions + 1
  /\ next_id' = 0
  /\ UNCHANGED <<stamp, acked, inflight>>

-----------------------------------------------------------------------------
(* Opening: TransactionalMemory::new and Database::new *)

\* Faulty variant: a corrupted primary is fatal.
select_primary_slot_NoFallback(f) ==
  LET p == f.god.primary
      sec == f.slots[1 - p]
  IN  IF ~f.slots[p].ok THEN {}
      ELSE IF /\ ~f.god.two_phase_commit
              /\ sec.transaction_id > f.slots[p].transaction_id
              /\ sec.ok
      THEN {1 - p} ELSE {p}

\* Faulty variant: a valid primary is taken though the secondary is newer.
select_primary_slot_IgnoreNewer(f) ==
  LET p == f.god.primary
  IN  IF f.slots[p].ok THEN {p}
      ELSE IF ~f.god.two_phase_commit /\ f.slots[1 - p].ok THEN {1 - p} ELSE {}

\* select_primary_slot: the slots that may become the primary; none when the
\* header is beyond repair.
select_primary_slot(f) ==
  LET p == f.god.primary
      prim == f.slots[p]
      sec == f.slots[1 - p]
  IN  IF f.god.two_phase_commit THEN IF prim.ok THEN {p} ELSE {}
      ELSE IF ~prim.ok THEN IF sec.ok THEN {1 - p} ELSE {}
      ELSE IF sec.transaction_id > prim.transaction_id /\ sec.ok THEN {1 - p}
      ELSE {p}

\* from_bytes and finalize.  A header that needs recovery is written back.
Load ==
  /\ pc = "down"
  /\ LET chosen == select_primary_slot(file)
         h == [god |-> [file.god EXCEPT !.primary = CHOOSE i \in chosen : TRUE],
               slots |-> [i \in 0..1 |-> [file.slots[i] EXCEPT !.ok = TRUE]],
               read_from_secondary |-> FALSE]
     IN  IF chosen = {} THEN pc' = "failed" /\ UNCHANGED <<file, media, mem>>
         ELSE /\ mem' = h
              /\ IF file.god.recovery_required
                 THEN pc' = "loading" /\ write_header(h)
                 ELSE pc' = "loaded" /\ UNCHANGED <<file, media>>
  /\ UNCHANGED <<next_id, stamp, acked, inflight, sessions>>

LoadSync ==
  /\ pc = "loading"
  /\ flush
  /\ pc' = "loaded"
  /\ UNCHANGED <<mem, next_id, stamp, acked, inflight, sessions>>

\* get_allocator_state_table finds the table of the last transaction, which
\* must have been a two-phase commit.
HasAllocatorState ==
  /\ mem.god.two_phase_commit
  /\ primary_slot(mem).system_root.alloc # 0
  /\ primary_slot(mem).system_root.alloc = primary_slot(mem).transaction_id

\* load_allocator_state: no verification, the flag is cleared in memory only.
LoadAllocatorState ==
  /\ pc = "loaded"
  /\ HasAllocatorState
  /\ mem' = [mem EXCEPT !.god.recovery_required = FALSE]
  /\ pc' = "opened"
  /\ UNCHANGED <<file, media, next_id, stamp, acked, inflight, sessions>>

\* do_repair up to the rebuilt allocator: keep the primary if its trees
\* verify, else fall back on the other slot unless this was a 2-phase commit.
Verify ==
  LET repaired == IF verify_checksums(primary_slot(mem)) THEN mem
                  ELSE swap_primary_slot(mem)
      usable == /\ repaired # mem => ~mem.god.two_phase_commit
                /\ verify_checksums(primary_slot(repaired))
  IN  /\ pc = "loaded"
      /\ ~HasAllocatorState
      /\ pc' = IF usable THEN "verified" ELSE "failed"
      /\ mem' = repaired
      /\ UNCHANGED <<file, media, next_id, stamp, acked, inflight, sessions>>

\* The user's RepairSession callback aborts the repair.
AbortRepair ==
  /\ pc = "verified" \/ (pc = "loaded" /\ ~HasAllocatorState)
  /\ sessions < MaxSessions
  /\ pc' = "down"
  /\ mem' = NoHeader
  /\ sessions' = sessions + 1
  /\ UNCHANGED <<file, media, next_id, stamp, acked, inflight>>

\* clear_recovery_required
ClearRecoveryRequired ==
  /\ pc = "verified"
  /\ mem' = [mem EXCEPT !.god.recovery_required = FALSE]
  /\ write_header(mem')
  /\ pc' = "cleared"
  /\ UNCHANGED <<next_id, stamp, acked, inflight, sessions>>

\* The header with a new secondary slot, as written by TransactionalMemory::
\* commit before the primary is swapped.
WithSecondary(h, s) == [h EXCEPT !.slots[1 - h.god.primary] = s]

\* The header that commit has written, until it becomes the one in memory.
FileHeader == [god |-> file.god, slots |-> file.slots, read_from_secondary |-> FALSE]

\* The swap of the primary and the two_phase_commit flag are one byte.
Swapped(h, two_phase) ==
  [swap_primary_slot(h) EXCEPT !.god.two_phase_commit = two_phase]

\* Faulty variant: slot and god byte are written together, yet the commit is
\* flagged as two-phase.
RepairCommit_OnePhase ==
  /\ pc = "cleared"
  /\ LET s == primary_slot(mem)
     IN  flush_then_write(
           Swapped(WithSecondary(mem, [s EXCEPT !.transaction_id = @ + 1]), TRUE))
  /\ pc' = "recommitted"
  /\ UNCHANGED <<mem, next_id, stamp, acked, inflight, sessions>>

\* The repaired roots are committed again, in two phases, under the next id.
RepairCommit ==
  /\ pc = "cleared"
  /\ LET s == primary_slot(mem)
     IN  flush_then_write(WithSecondary(mem, [s EXCEPT !.transaction_id = @ + 1]))
  /\ pc' = "recommit"
  /\ UNCHANGED <<mem, next_id, stamp, acked, inflight, sessions>>

RepairCommitSwap ==
  /\ pc = "recommit"
  /\ flush_then_write(Swapped(FileHeader, TRUE))
  /\ pc' = "recommitted"
  /\ UNCHANGED <<mem, next_id, stamp, acked, inflight, sessions>>

RepairCommitDone ==
  /\ pc = "recommitted"
  /\ flush
  /\ mem' = FileHeader
  /\ pc' = "opened"
  /\ UNCHANGED <<next_id, stamp, acked, inflight, sessions>>

\* begin_writable sets the flag that makes the next open a recovery.
BeginWritable ==
  /\ pc = "opened"
  /\ mem' = [mem EXCEPT !.god.recovery_required = TRUE]
  /\ write_header(mem')
  /\ pc' = "marking"
  /\ UNCHANGED <<next_id, stamp, acked, inflight, sessions>>

\* Database::new returns: its internal write transaction took one id.
Opened ==
  /\ pc = "marking"
  /\ flush
  /\ pc' = "ready"
  /\ next_id' = primary_slot(mem).transaction_id + 2
  /\ acked' = Version(primary_slot(mem))
  /\ inflight' = {}
  /\ UNCHANGED <<mem, stamp, sessions>>

-----------------------------------------------------------------------------
(* Committing *)

\* Faulty variant: only the latest commit is protected, not the durable one.
FreePages_LatestOnly ==
  Pages \ {latest_slot(mem).user_root.page, latest_slot(mem).system_root.page}

\* Pages that the allocator may hand out.
FreePages ==
  Pages \ {r.page : r \in {primary_slot(mem).user_root, primary_slot(mem).system_root,
                           latest_slot(mem).user_root, latest_slot(mem).system_root}}

\* What a write transaction commits: it rewrites the system tree and perhaps
\* the user tree, in free pages, and stamps what it writes.
NewSlot(user, system, alloc) ==
  [transaction_id |-> next_id + 1,
   user_root |-> IF user = NoPage THEN latest_slot(mem).user_root
                 ELSE [page |-> user, stamp |-> stamp + 1, alloc |-> 0],
   system_root |-> [page |-> system, stamp |-> stamp + 1, alloc |-> alloc],
   ok |-> TRUE]

PagesWritten(user, system) ==
  [file EXCEPT !.pages = [p \in Pages |->
     IF p \in {user, system} THEN stamp + 1 ELSE file.pages[p]]]

\* A transaction has written its pages and calls commit.
Transaction(user, system) ==
  /\ pc = "ready"
  /\ stamp < MaxStamp
  /\ user \in FreePages \cup {NoPage}
  /\ system \in FreePages \ {user}
  /\ stamp' = stamp + 1
  /\ next_id' = next_id + 1

\* non_durable_commit, which the post-commit epilogue also ends with.  The
\* allocator state table of the last commit stays in the system tree.
NonDurableCommit(user, system) ==
  /\ Transaction(user, system)
  /\ mem' = [WithSecondary(mem, NewSlot(user, system, latest_slot(mem).system_root.alloc))
               EXCEPT !.read_from_secondary = TRUE]
  /\ file' = PagesWritten(user, system)
  /\ media' = Written(media, file')
  /\ UNCHANGED <<pc, acked, inflight, sessions>>

\* TransactionalMemory::commit without two_phase: pages, slot and god byte are
\* all in flight at once.
Commit1PC(user, system) ==
  /\ Transaction(user, system)
  /\ LET s == NewSlot(user, system, 0)
     IN  /\ file' = to_bytes(PagesWritten(user, system),
                             Swapped(WithSecondary(mem, s), FALSE))
         /\ inflight' = {Version(s)}
  /\ media' = Written(media, file')
  /\ pc' = "commit"
  /\ UNCHANGED <<mem, acked, sessions>>

\* With two_phase the slot is flushed first.  A quick-repair commit is always
\* two-phase and rewrites the allocator state table; others delete it.
Commit2PC(user, system, quick_repair) ==
  /\ Transaction(user, system)
  /\ LET s == NewSlot(user, system, IF quick_repair THEN next_id + 1 ELSE 0)
     IN  /\ file' = to_bytes(PagesWritten(user, system), WithSecondary(mem, s))
         /\ inflight' = {Version(s)}
  /\ media' = Written(media, file')
  /\ pc' = "phase1"
  /\ UNCHANGED <<mem, acked, sessions>>

\* Faulty variant: no flush between the slot and the god byte.
Commit2PCSwap_NoFlush ==
  /\ pc = "phase1"
  /\ write_header(Swapped(FileHeader, TRUE))
  /\ pc' = "commit"
  /\ UNCHANGED <<mem, next_id, stamp, acked, inflight, sessions>>

Commit2PCSwap ==
  /\ pc = "phase1"
  /\ flush_then_write(Swapped(FileHeader, TRUE))
  /\ pc' = "commit"
  /\ UNCHANGED <<mem, next_id, stamp, acked, inflight, sessions>>

\* The last flush of commit, and the new header becomes visible.
CommitDone ==
  /\ pc = "commit"
  /\ flush
  /\ mem' = FileHeader
  /\ acked' = Version(primary_slot(FileHeader))
  /\ inflight' = {}
  /\ pc' = "ready"
  /\ UNCHANGED <<next_id, stamp, sessions>>

\* close: flush_shutdown_header.  Drop for Database first makes a quick-repair
\* commit, but closes all the same when that one fails.
Close ==
  /\ pc = "ready"
  /\ sessions < MaxSessions
  /\ sessions' = sessions + 1
  /\ flush_then_write([mem EXCEPT !.god.recovery_required = FALSE])
  /\ inflight' = {Version(latest_slot(mem))}
  /\ pc' = "closing"
  /\ UNCHANGED <<mem, next_id, stamp, acked>>

CloseDone ==
  /\ pc = "closing"
  /\ flush
  /\ pc' = "down"
  /\ mem' = NoHeader
  /\ next_id' = 0
  /\ UNCHANGED <<stamp, acked, inflight, sessions>>

-----------------------------------------------------------------------------

Opening ==
  \/ Load \/ LoadSync \/ LoadAllocatorState \/ Verify
  \/ ClearRecoveryRequired \/ RepairCommit \/ RepairCommitSwap
  \/ RepairCommitDone \/ BeginWritable \/ Opened

Next ==
  \/ Opening \/ AbortRepair
  \/ \E user \in Pages \cup {NoPage}, system \in Pages :
        \/ NonDurableCommit(user, system)
        \/ Commit1PC(user, system)
        \/ \E quick_repair \in BOOLEAN : Commit2PC(user, system, quick_repair)
  \/ Commit2PCSwap \/ CommitDone
  \/ Close \/ CloseDone
  \/ \E power \in BOOLEAN : Crash(power)

Spec == Init /\ [][Next]_vars

\* Opening runs on the caller's thread and never waits for anybody.
FairSpec == Spec /\ WF_vars(Opening)

-----------------------------------------------------------------------------
(* Properties *)

FileType == [god : God, slots : [0..1 -> Slot], pages : [Pages -> Stamp \cup {Torn}]]

\* The file, the header in memory and what a crash may leave have their types.
TypeOK ==
  /\ file \in FileType
  /\ media.god \subseteq God
  /\ \A i \in 0..1 : media.slots[i] \subseteq Slot
  /\ \A p \in Pages : media.pages[p] \subseteq Stamp \cup {Torn}
  /\ mem \in Header
  /\ pc \in {"down", "failed", "loading", "loaded", "verified", "cleared",
             "recommit", "recommitted", "opened", "marking", "ready", "phase1",
             "commit", "closing"}
  /\ next_id \in Nat /\ stamp \in Stamp /\ sessions \in 0 .. MaxSessions
  /\ acked \in Versions /\ inflight \subseteq Versions

\* However often it crashes, and wherever, even inside an earlier recovery, the
\* database can be opened again: select_primary_slot and do_repair never run
\* out of slots ("Both commit slots are corrupted", "All roots are corrupted",
\* "Primary is corrupted despite 2-phase commit").
OpenNeverFails == pc # "failed"

\* A root is safe when no crash can change a byte of its page.
Durable(r) == r.page # NoPage => media.pages[r.page] = {r.stamp}

\* The comment of select_primary_slot: a primary written with 2-phase commit
\* "is guaranteed to be valid".  Whatever god byte a crash leaves, if it says
\* two_phase_commit the slot it points to and the trees of that slot are past
\* all doubt.  LoadAllocatorState, which verifies nothing, rests on it.
TwoPhasePrimaryDurable ==
  \A g \in media.god : g.two_phase_commit =>
     \A s \in media.slots[g.primary] :
        /\ media.slots[g.primary] = {s}
        /\ s.ok /\ Durable(s.user_root) /\ Durable(s.system_root)

\* What commit has acknowledged is on the disk for good, and later transactions,
\* committed or in flight, never write over it; readers find the latest
\* commit's pages as they were written.
AcknowledgedStaysIntact ==
  pc \in {"ready", "phase1", "commit"} =>
    /\ Durable(primary_slot(mem).user_root)
    /\ Durable(primary_slot(mem).system_root)
    /\ Version(primary_slot(mem)) = acked
    /\ verify_checksums(latest_slot(mem))

\* The refinement: an open database that crashes comes back with its last
\* acknowledged durable state or that of the commit or close under way.
Store == INSTANCE DurableStore WITH
  open <- pc \in {"ready", "phase1", "commit", "closing"},
  visible <- IF pc \in {"ready", "phase1", "commit", "closing"}
             THEN Version(latest_slot(mem)) ELSE acked,
  durable <- acked,
  pending <- inflight

\* redb's commits are atomic and durable: docs/design.md, "in the event of a
\* crash the database is still guaranteed to be consistent, and will return to
\* either the last non-durable commit or the last full commit".
CommitsAtomic == Store!Spec

\* A database that is down can always be brought up: when crashes cease, every
\* open ends, through however many repairs, with the database usable.
OpenTerminates == pc = "down" ~> pc = "ready"
=============================================================================
