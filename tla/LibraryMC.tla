----------------------------- MODULE LibraryMC -----------------------------
(* Values for model checking Library.                                       *)
EXTENDS Library, TLC
Symmetry == Permutations(Folders) \cup Permutations(Photos)
=============================================================================
