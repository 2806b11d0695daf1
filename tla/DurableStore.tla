--------------------------- MODULE DurableStore ---------------------------
(***************************************************************************)
(* What the commit protocol promises, with no file, header or page in      *)
(* sight: a store whose durable commits are atomic.  A crash loses         *)
(* non-durable commits; it leaves the last durable state or, if a durable  *)
(* commit was under way, possibly the state of that commit, and nothing    *)
(* else.  A state of the database is an element of Versions.               *)
(***************************************************************************)
CONSTANT Versions

VARIABLES open,      \* the database is open and usable
          visible,   \* what readers of the open database see
          durable,   \* the last acknowledged durable state
          pending    \* states a crash may leave instead of `durable`

vars == <<open, visible, durable, pending>>

\* A database exists and is not open.
Init ==
  /\ open = FALSE
  /\ durable \in Versions
  /\ visible = durable
  /\ pending = {}

NonDurableCommit ==
  /\ open
  /\ visible' \in Versions
  /\ UNCHANGED <<open, durable, pending>>

\* A durable commit starts ...
StartCommit(v) ==
  /\ open
  /\ pending' = {v}
  /\ UNCHANGED <<open, visible, durable>>

\* ... and is acknowledged.
FinishCommit(v) ==
  /\ open
  /\ pending = {v}
  /\ visible' = v
  /\ durable' = v
  /\ pending' = {}
  /\ UNCHANGED open

\* A close that only makes the visible state durable if it can.
Close ==
  /\ open
  /\ pending' = {visible}
  /\ UNCHANGED <<open, visible, durable>>

\* Crash, or the end of a close.
Stop ==
  /\ open
  /\ open' = FALSE
  /\ visible' = durable
  /\ UNCHANGED <<durable, pending>>

Recover(v) ==
  /\ ~open
  /\ v \in {durable} \cup pending
  /\ open' = TRUE
  /\ visible' = v
  /\ durable' = v
  /\ pending' = {}

Next ==
  \/ NonDurableCommit \/ Close \/ Stop
  \/ \E v \in Versions : StartCommit(v) \/ FinishCommit(v) \/ Recover(v)

Spec == Init /\ [][Next]_vars
=============================================================================
