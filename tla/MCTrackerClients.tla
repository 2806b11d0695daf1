------------------------- MODULE MCTrackerClients -------------------------
(* Instances of TrackerClients for TLC. *)
EXTENDS TrackerClients, TLC

CONSTANTS w1, w2, w3, r1, r2

OneWriter == {w1}
TwoWriters == {w1, w2}
ThreeWriters == {w1, w2, w3}
OneReader == {r1}
TwoReaders == {r1, r2}

Symmetry == Permutations(Writers) \cup Permutations(Readers)
=============================================================================
