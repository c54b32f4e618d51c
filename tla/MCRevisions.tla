---------------------------- MODULE MCRevisions ----------------------------
(* Revisions with interchangeable requests, names and contents. *)
EXTENDS Revisions, TLC

Symmetry == Permutations(Calls) \union Permutations(Names) \union Permutations(Files)
                \union Permutations(Titles) \union Permutations(Bodies)
=============================================================================
