------------------------------ MODULE MCAccess ------------------------------
(* Access with interchangeable requests, ids, names and keys. *)
EXTENDS Access, TLC

Symmetry == Permutations(Calls) \union Permutations(Ids) \union Permutations(Names) \union Permutations(Keys)
=============================================================================
