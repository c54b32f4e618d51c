------------------------------ MODULE MCPageTree ------------------------------
(* Small instances of PageTreeDisk: ids and slugs are numbers. *)
EXTENDS PageTreeDisk

TwoNodes == {1, 2}
ThreeNodes == {1, 2, 3}
TwoSlugs == {1, 2}
AllFail == {"mkdir", "write", "order", "rename", "remove"}
OrderFails == {"order"}
=============================================================================
