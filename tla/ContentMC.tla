----------------------------- MODULE ContentMC -----------------------------
(* Pictures, two modules that take turns, two segments or days.             *)
EXTENDS Content, TLC

CONSTANTS p1, p2, p3, poem, story

MCIds == {p1, p2, p3}
MCModules == {poem, story}
MCRotation == [d \in 0..MaxTime |-> IF d % 2 = 0 THEN poem ELSE story]

Symmetry == Permutations(Ids)
=============================================================================
