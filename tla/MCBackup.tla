------------------------------ MODULE MCBackup ------------------------------
(* Backup with interchangeable files and contents. *)
EXTENDS Backup

CONSTANTS p, q, a, b

Start(here, there) == [live |-> here, there |-> there]
Files(ofP, ofQ) == p :> ofP @@ q :> ofQ

\* Nothing anywhere, one side only, the same, and different files and contents.
FirstContents ==
    {Start(Files(None, None), Files(a, b)), Start(Files(a, None), Files(a, None)),
     Start(Files(a, None), Files(b, a)), Start(Files(a, b), Files(None, None)),
     Start(Files(a, a), Files(a, b))}

Symmetry == Permutations(Paths) \union Permutations(Contents)
=============================================================================
