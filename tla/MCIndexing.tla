----------------------------- MODULE MCIndexing -----------------------------
(* Indexing on a page with a child and a third page that may link to them. *)
EXTENDS Indexing, TLC

CONSTANTS p1, p2, p3, s, t, x, y, z, g, h

Draft(title, slug, body, tag) == [title |-> title, slug |-> slug, body |-> body, tag |-> tag]
Typed == {Draft(z, s, None, g), Draft(x, s, <<s, t>>, g), Draft(y, t, x, h), Draft(x, t, <<s>>, h)}

Page(up, slug, title, body) == [up |-> up, slug |-> slug, title |-> title, body |-> body, tag |-> g]
Tree(link, third) == p1 :> Page(Root, s, x, None) @@ p2 :> Page(p1, t, y, link) @@ p3 :> third
Trees == {Tree(x, None), Tree(None, Page(Root, t, y, <<s, t>>)), Tree(None, Page(Root, t, y, x))}

Symmetric == Permutations(Calls)
=============================================================================
