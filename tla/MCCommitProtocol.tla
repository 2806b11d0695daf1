------------------------- MODULE MCCommitProtocol -------------------------
(* Instances of CommitProtocol: data pages are interchangeable. *)
EXTENDS CommitProtocol, TLC

CONSTANTS p1, p2, p3, p4, p5

ThreePages == {p1, p2, p3}
FourPages == {p1, p2, p3, p4}
FivePages == {p1, p2, p3, p4, p5}

PageSymmetry == Permutations(Pages)
=============================================================================
