------------------------------- MODULE StyleTree -------------------------------
(***************************************************************************)
(* handle.rs, stylo_dom.rs and stylo_selectors.rs of crates/style: what    *)
(* stylo may ask of a document.  A document is a record of functions on    *)
(* its nodes 1 .. n, the document node first: parent, children, kind,      *)
(* local name, namespace, template contents (a fragment, or NoNode),       *)
(* attributes (a function from names to the words of the value) and the    *)
(* symbols of a text.                                                      *)
(***************************************************************************)
EXTENDS Naturals, Sequences, SequencesExt, FiniteSetsExt

NoNode   == 0
Nodes(d) == DOMAIN d.kind
is_element(d, n) == n # NoNode /\ d.kind[n] = "Element"
has_attr(d, n, name) == is_element(d, n) /\ name \in DOMAIN d.attrs[n]
\* An attribute's words; a missing one has none.
attr(d, n, name) == IF has_attr(d, n, name) THEN d.attrs[n][name] ELSE <<>>
parent_element(d, n) == IF is_element(d, d.parent[n]) THEN d.parent[n] ELSE NoNode

\* Document::descendants, in document order; a template's contents are none of them.
RECURSIVE descendants(_, _)
descendants(d, n) ==
  FlattenSeq([i \in DOMAIN d.children[n] |->
                <<d.children[n][i]>> \o descendants(d, d.children[n][i])])

\* The document element, if there is one.
root_element(d) ==
  LET elements == SelectSeq(d.children[1], LAMBDA n : is_element(d, n))
  IN  IF elements = <<>> THEN NoNode ELSE elements[1]

-----------------------------------------------------------------------------
(* NodeArena::link: every node's nearest siblings among those of a kind,   *)
(* and the first child of that kind.  A text or a comment has such         *)
(* siblings and is nobody's.                                               *)
link_among(d, linked) ==
  LET Places(p)     == {i \in DOMAIN d.children[p] : d.children[p][i] \in linked}
      child(p, S, i) == IF S = {} THEN NoNode ELSE d.children[p][i]
      before(n)      == {i \in Places(d.parent[n]) :
                           \E j \in DOMAIN d.children[d.parent[n]] : d.children[d.parent[n]][j] = n /\ i < j}
      after(n)       == {i \in Places(d.parent[n]) :
                           \E j \in DOMAIN d.children[d.parent[n]] : d.children[d.parent[n]][j] = n /\ j < i}
      sibling(n, S(_), nearest(_)) ==
        IF d.parent[n] = NoNode \/ S(n) = {} THEN NoNode ELSE d.children[d.parent[n]][nearest(S(n))]
  IN  [prev  |-> [n \in Nodes(d) |-> sibling(n, before, Max)],
       next  |-> [n \in Nodes(d) |-> sibling(n, after, Min)],
       first |-> [p \in Nodes(d) |-> child(p, Places(p), IF Places(p) = {} THEN 0 ELSE Min(Places(p)))]]

\* Mutant of link: a text between two elements counts as a sibling of both.
link_any(d) == link_among(d, {n \in Nodes(d) : d.kind[n] # "Comment"})

link(d) == link_among(d, {n \in Nodes(d) : is_element(d, n)})

-----------------------------------------------------------------------------
is_link_element(d, n) ==
  /\ d.ns[n] = "html"
  /\ d.local[n] \in {"a", "area", "link"}
  /\ has_attr(d, n, "href")
is_root_element(d, n) == d.parent[n] # NoNode /\ d.kind[d.parent[n]] = "Document"

\* Mutant of is_empty_element: a text counts however short it is.
is_empty_of_nodes(d, n) == \A c \in ToSet(d.children[n]) : d.kind[c] \notin {"Element", "Text"}

\* Neither an element nor any text; a comment does not count.
is_empty_element(d, n) ==
  \A c \in ToSet(d.children[n]) : ~ is_element(d, c) /\ (d.kind[c] = "Text" => d.text[c] = <<>>)
===============================================================================
