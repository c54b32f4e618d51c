----------------------------- MODULE MCImporter -----------------------------
(* Importer on two small archives. *)
EXTENDS Importer

CONSTANTS s, t

File(dir, name, link) == [dir |-> dir, name |-> name, link |-> link]
Link(absolute, path) == [absolute |-> absolute, path |-> path]

\* s/index.md, t.md and s/t.md; and index.md with s/index.md and s.md, of which
\* two have the same target and one has none.
Archives ==
    {<<File(<<s>>, Index, Link(FALSE, <<t>>)), File(<<>>, t, None), File(<<s>>, t, Link(TRUE, <<t>>))>>,
     <<File(<<>>, Index, None), File(<<s>>, Index, None), File(<<>>, s, Link(FALSE, <<s>>))>>}
Tree == {<<s>>, <<t>>, <<s, t>>}
=============================================================================
