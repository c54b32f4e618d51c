---------------------------- MODULE MCMigration -----------------------------
(* Migration of a page a and a section s with the pages x and y, with a      *)
(* page b that tree.json does not know.                                      *)
EXTENDS Migration

Names == "root" :> <<"a", "b", "s">> @@ "s" :> <<"x", "y">> @@ [p \in {"a", "b", "x", "y"} |-> <<>>]
Kids == "root" :> <<"s", "a">> @@ "s" :> <<"y", "x">> @@ [p \in {"a", "b", "x", "y"} |-> <<>>]
Found == "a" :> {"page", "broken", "gone"} @@ "b" :> {"gone", "page", "copy"}
         @@ "s" :> {"folder", "brokenFolder", "bare", "both", "gone"} @@ "x" :> {"page", "gone"} @@ "y" :> {"page", "gone"}
=============================================================================
