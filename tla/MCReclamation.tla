--------------------------- MODULE MCReclamation ---------------------------
(* Instances of Reclamation: pages and readers are interchangeable. *)
EXTENDS Reclamation, TLC

CONSTANTS p1, p2, p3, p4, p5, p6, r1

FourPages == {p1, p2, p3, p4}
FivePages == {p1, p2, p3, p4, p5}
SixPages == {p1, p2, p3, p4, p5, p6}
NoReader == {}
OneReader == {r1}

DurableOnly == {"Immediate"}
DurableQuick == {"Immediate", "QuickRepair"}
Mixed == {"Immediate", "None"}
AllDurabilities == {"Immediate", "QuickRepair", "None"}

\* Bounds on the instances with two savepoints, as action constraints.  A crash
\* before the first commit only repeats the initial state.
CrashAfterCommit == spent'.crashes > spent.crashes => durable.id > 1

\* Two ephemeral savepoints, which no crash survives, are left to the instance
\* without crashes.
OneEphemeral == Cardinality(handles' \cup dropping') <= 1

\* Behaviours that take a second savepoint are one transaction shorter.
LastWithOneSavepoint == spent'.writes = MaxWrites => tracker'.next_savepoint_id <= 1

PageSymmetry == Permutations(Pages)
=============================================================================
