----------------------------- MODULE LinkRewrite -----------------------------
(***************************************************************************)
(* How links in the text of a page are rewritten when a page they lead to,  *)
(* or the page itself, gets another path (internal/links, link_refactor.go; *)
(* internal/core/markdown, links.go).  There is no state here.              *)
(*                                                                          *)
(* A path is the sequence of its slugs, a destination [abs, parts], where   *)
(* parts may contain Up for "..".  A text is the sequence of the links in   *)
(* it, each with the way it is written; queries and anchors, and links to   *)
(* other sites and to assets, which nothing rewrites, are left out.         *)
(***************************************************************************)
EXTENDS Naturals, Sequences, SequencesExt, FiniteSets

CONSTANT Up

\* The form of a link: "inline" [x](d), "reference" [x][r] with its definition
\* elsewhere, "html" or "code" for text of that shape in an HTML block or in
\* code, "title" [[Title]], "hint" [[path/hint]].

-----------------------------------------------------------------------------
(* Paths *)

\* A page is a folder: what is relative to it lies below it.
Resolve(current, dest) ==
    FoldLeft(LAMBDA at, part : IF part # Up THEN Append(at, part) ELSE IF at = <<>> THEN at ELSE Front(at),
             IF dest.abs THEN <<>> ELSE current, dest.parts)

\* RewriteRule: what was at rule.old, or below it, is at rule.new.
ApplyRule(path, rule) ==
    IF IsPrefix(rule.old, path) THEN rule.new \o SubSeq(path, Len(rule.old) + 1, Len(path)) ELSE path

Shared(a, b) == Cardinality({n \in 1 .. Len(a) : n <= Len(b) /\ SubSeq(a, 1, n) = SubSeq(b, 1, n)})
Relative(base, target) ==
    [abs |-> FALSE, parts |-> [n \in 1 .. Len(base) - Shared(base, target) |-> Up]
                                  \o SubSeq(target, Shared(base, target) + 1, Len(target))]
Nowhere(dest) == ~dest.abs /\ dest.parts = <<>>

-----------------------------------------------------------------------------
(* One destination *)

\* In a page that is not moved, or has been moved already.
RewriteDestination(current, dest, rule) ==
    LET to == Resolve(current, dest)
        next == ApplyRule(to, rule)
        new == IF dest.abs THEN [dest EXCEPT !.parts = next] ELSE Relative(ApplyRule(current, rule), next)
    IN  IF next = to \/ Nowhere(new) THEN dest ELSE new

\* In a page that moves from one path to another itself.
Mutant_FromOldPlace(from, to, dest, rule) ==
    LET new == Relative(from, ApplyRule(Resolve(from, dest), rule))
    IN  IF dest.abs \/ from = to \/ Nowhere(new) THEN dest ELSE new
RewriteForPathChange(from, to, dest, rule) ==
    LET new == Relative(to, ApplyRule(Resolve(from, dest), rule))
    IN  IF dest.abs \/ from = to \/ Nowhere(new) THEN dest ELSE new

-----------------------------------------------------------------------------
(* The links of a text *)

\* The parser finds links of both forms, outside code and HTML; the scanner
\* looks for the inline form, outside code.
Candidates(text) == SelectSeq([i \in DOMAIN text |-> i], LAMBDA i : text[i].form \in {"inline", "reference"})
Occurrences(text) == {i \in DOMAIN text : text[i].form \in {"inline", "html"}}

\* Each link the parser found takes the next occurrence with its destination,
\* and passes over those before: all of them, if there is none.
Mapped(text) ==
    LET found == Occurrences(text)
    IN  FoldLeft(LAMBDA m, c :
                LET fit == {i \in found : i > m.at /\ text[i].dest = text[c].dest}
                    next == CHOOSE i \in fit : \A j \in fit : i <= j
                IN  IF fit = {} THEN [m EXCEPT !.at = Len(text)] ELSE [at |-> next, taken |-> m.taken \union {next}],
                 [at |-> 0, taken |-> {}], Candidates(text)).taken

RewriteEach(text, New(_)) ==
    LET mapped == Mapped(text)
    IN  [i \in DOMAIN text |-> IF i \in mapped THEN [text[i] EXCEPT !.dest = New(@)] ELSE text[i]]

Rewrite(text, current, rule) == RewriteEach(text, LAMBDA d : RewriteDestination(current, d, rule))
RewriteRelativeLinks(text, from, to, rule) == RewriteEach(text, LAMBDA d : RewriteForPathChange(from, to, d, rule))

\* [[Title]] and [[path/hint]]: the title and the path of the rule, exactly.
RewriteWikiLinks(text, rule) ==
    [i \in DOMAIN text |->
        IF text[i].form = "title" /\ text[i].dest = rule.oldTitle THEN [text[i] EXCEPT !.dest = rule.newTitle]
        ELSE IF text[i].form = "hint" /\ text[i].dest = rule.old THEN [text[i] EXCEPT !.dest = rule.new] ELSE text[i]]

\* rewriteAffectedPages, and rewritePathChangedSubtree in its two passes.
RewriteAffected(text, current, rule) == RewriteWikiLinks(Rewrite(text, current, rule), rule)
RewriteMoved(text, from, to, rule) == Rewrite(RewriteRelativeLinks(text, from, to, rule), to, rule)
=============================================================================
