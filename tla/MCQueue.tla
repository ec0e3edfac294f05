------------------------------ MODULE MCQueue -------------------------------
EXTENDS Queue, TLC

CONSTANTS i1, i2, i3, s1

MCIds == {i1, i2, i3}
MCSongs == {s1}

\* Ids are compared only for equality, so permuting them is a symmetry.
IdSymmetry == Permutations(MCIds)
====
