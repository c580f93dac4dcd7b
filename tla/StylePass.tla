------------------------------- MODULE StylePass -------------------------------
(***************************************************************************)
(* engine.rs, store.rs and traversal.rs of crates/style, with the matching *)
(* of stylo_selectors.rs: a style pass over a document.  The traversal is  *)
(* stylo's: it visits the nodes noted so far in the order they were noted. *)
(* What a rule or a declaration is called in a sheet's text stands for it. *)
(***************************************************************************)
EXTENDS StyleTree

CONSTANTS
  Rules,        \* what is in a sheet: a function from names to a selector and what it sets
  Declarations  \* what is in a style attribute: a function from names to what is set

VARIABLES
  doc,     \* the document
  engine,  \* the sheets appended, by origin, and those in the stylist's cascade data
  pass,    \* "idle", "traversing" or "lifting"
  arena,   \* the links of the pass
  store,   \* the pass's side table: a slot for each node; none between passes
  queue,   \* the nodes noted and not yet visited
  styles   \* the computed style of each node, as a set of at most one

styleVars == <<doc, engine, pass, arena, store, queue, styles>>

\* A OnceCell is a sequence of at most one value.
Slot == [present |-> FALSE, hint |-> {}, primary |-> {}, id_atom |-> <<>>, style_attr |-> <<>>]
get_or_init(cell, value) == IF cell = <<>> THEN <<value>> ELSE cell
StyleStore(len) == [n \in 1 .. len |-> Slot]
Subtree == {"RESTYLE_SELF", "RESTYLE_DESCENDANTS"}

-----------------------------------------------------------------------------
(* StyleEngine::new, add_author_sheet and add_ua_sheet_from: a sheet keeps *)
(* the rules its text has, and is not in the cascade before the next flush. *)
NewEngine == [ua |-> <<>>, author |-> <<>>, cascade |-> [ua |-> <<>>, author |-> <<>>]]
new_accepts(viewport) == viewport.width > 0 /\ viewport.height > 0
Parsed(css) == SelectSeq(css, LAMBDA name : name \in DOMAIN Rules)
build_and_append(e, css, origin) ==
  IF origin = "author" THEN [e EXCEPT !.author = Append(@, Parsed(css))]
  ELSE [e EXCEPT !.ua = Append(@, Parsed(css))]
add_author_sheet(e, css)  == build_and_append(e, css, "author")
add_ua_sheet_from(e, css) == build_and_append(e, css, "ua")
\* Mutant of flush: the cascade data is built once.
flush_once(e) == IF e.cascade.ua = <<>> THEN [e EXCEPT !.cascade = [ua |-> e.ua, author |-> e.author]] ELSE e
flush(e) == [e EXCEPT !.cascade = [ua |-> e.ua, author |-> e.author]]

-----------------------------------------------------------------------------
(* selectors::Element of an ElementHandle, for a simple selector and for   *)
(* one that is related to another by a combinator.                         *)
id_atom(n) == get_or_init(store[n].id_atom, attr(doc, n, "id"))[1]
style_attr(n) == get_or_init(store[n].style_attr, attr(doc, n, "style"))[1]

has_class(n, name) == Contains(attr(doc, n, "class"), name)
RECURSIVE elements_from(_)
elements_from(k) == IF k = NoNode THEN {} ELSE {k} \cup elements_from(arena.next[k])
has_child(n, local) == \E k \in elements_from(arena.first[n]) : doc.local[k] = local

matches_simple(n, s) ==
  \/ s.is = "any"
  \/ s.is = "type"  /\ doc.local[n] = s.of
  \/ s.is = "id"    /\ id_atom(n) = <<s.of>>
  \/ s.is = "class" /\ has_class(n, s.of)
  \/ s.is = "attr"  /\ has_attr(doc, n, s.of)
  \/ s.is = "root"  /\ is_root_element(doc, n)
  \/ s.is = "empty" /\ is_empty_element(doc, n)
  \/ s.is = "link"  /\ is_link_element(doc, n)
  \/ s.is = "first" /\ arena.prev[n] = NoNode
  \/ s.is = "last"  /\ arena.next[n] = NoNode
  \/ s.is = "has"   /\ has_child(n, s.of)

RECURSIVE ancestor_elements(_), earlier_elements(_)
ancestor_elements(n) ==
  IF parent_element(doc, n) = NoNode THEN {}
  ELSE {parent_element(doc, n)} \cup ancestor_elements(parent_element(doc, n))
earlier_elements(n) ==
  IF arena.prev[n] = NoNode THEN {} ELSE {arena.prev[n]} \cup earlier_elements(arena.prev[n])

related(n, combinator) ==
  IF combinator = ">" THEN {parent_element(doc, n)} \ {NoNode}
  ELSE IF combinator = " " THEN ancestor_elements(n)
  ELSE IF combinator = "+" THEN {arena.prev[n]} \ {NoNode}
  ELSE earlier_elements(n)
matches(n, sel) ==
  /\ matches_simple(n, sel.key)
  /\ sel.combinator = "" \/ \E m \in related(n, sel.combinator) : matches_simple(m, sel.left)

-----------------------------------------------------------------------------
(* The cascade, stylo's: user agent before author before inline, then by   *)
(* specificity, then by order; color inherits, display does not.           *)
Initial == [color |-> "black", display |-> "inline"]
ranked(sheets, origin) ==
  LET names == FlattenSeq(sheets)
  IN  {[rule |-> Rules[names[i]], rank |-> 10000 * origin + 100 * Rules[names[i]].specificity + i] :
         i \in DOMAIN names}
inline_ranked(declarations) ==
  {[rule |-> Declarations[declarations[i]], rank |-> 20000 + i] :
     i \in {i \in DOMAIN declarations : declarations[i] \in DOMAIN Declarations}}
specified(applicable, property, otherwise) ==
  LET Setting == {r \in applicable : r.rule.sets = property}
      top     == CHOOSE r \in Setting : \A o \in Setting : o.rank <= r.rank
  IN  IF Setting = {} THEN otherwise ELSE top.rule.to
ComputedFrom(applicable, inherited) ==
  [color   |-> specified(applicable, "color", inherited.color),
   display |-> specified(applicable, "display", Initial.display)]

cascade(n) ==
  LET Matching == {r \in ranked(engine.cascade.ua, 0) \cup ranked(engine.cascade.author, 1) :
                     matches(n, r.rule.sel)}
      p == parent_element(doc, n)
      inherited == IF p = NoNode THEN Initial ELSE CHOOSE s \in store[p].primary : TRUE
  IN  ComputedFrom(Matching \cup inline_ranked(style_attr(n)), inherited)

-----------------------------------------------------------------------------
\* Mutant of seed: the root has data and no hint.
seed_no_hint(s, root) == [s EXCEPT ![root].present = TRUE]
\* cascade_document's start: everything below the root element is to be styled.
seed(s, root) == [s EXCEPT ![root].present = TRUE, ![root].hint = Subtree]

\* StyleEngine::resolve up to the traversal.
Resolve ==
  /\ pass = "idle"
  /\ engine' = flush(engine)
  /\ IF root_element(doc) = NoNode
     THEN /\ pass' = "lifting" /\ store' = StyleStore(Cardinality(Nodes(doc)))
          /\ UNCHANGED <<doc, arena, queue, styles>>
     ELSE /\ pass' = "traversing"
          /\ store' = seed(StyleStore(Cardinality(Nodes(doc))), root_element(doc))
          /\ arena' = link(doc)
          /\ queue' = <<root_element(doc)>>
          /\ UNCHANGED <<doc, styles>>

\* What stylo goes on to: the elements and texts below a styled element that is shown.
traversal_children(n) == SelectSeq(doc.children[n], LAMBDA c : doc.kind[c] \in {"Element", "Text"})
propagate(hint) == IF "RESTYLE_DESCENDANTS" \in hint THEN Subtree ELSE {}
noted(n, style) ==
  IF propagate(store[n].hint) = {} \/ style.display = "none" THEN <<>> ELSE traversal_children(n)

\* process_preorder of a node that is no element does nothing.
VisitOther ==
  /\ pass = "traversing"
  /\ queue # <<>>
  /\ ~ is_element(doc, Head(queue))
  /\ queue' = Tail(queue)
  /\ UNCHANGED <<doc, engine, pass, arena, store, styles>>

\* process_preorder and recalc_style_at of an element.
VisitElement ==
  /\ pass = "traversing"
  /\ queue # <<>>
  /\ is_element(doc, Head(queue))
  /\ LET n     == Head(queue)
         style == cascade(n)
         below == noted(n, style)
     IN  /\ queue' = Tail(queue) \o below
         /\ store' = [k \in Nodes(doc) |->
              IF k = n
              THEN [present |-> TRUE, hint |-> {}, primary |-> {style},
                    id_atom |-> <<id_atom(n)>>, style_attr |-> <<style_attr(n)>>]
              ELSE IF Contains(below, k) THEN [store[k] EXCEPT !.hint = propagate(store[n].hint)]
              ELSE store[k]]
  /\ UNCHANGED <<doc, engine, pass, arena, styles>>

EndTraversal ==
  /\ pass = "traversing"
  /\ queue = <<>>
  /\ pass' = "lifting"
  /\ UNCHANGED <<doc, engine, arena, store, queue, styles>>

\* Each element's primary style is lifted out, and the store is dropped.
Lift ==
  /\ pass = "lifting"
  /\ styles' = [n \in Nodes(doc) |->
       IF Contains(descendants(doc, 1), n) /\ store[n].present THEN store[n].primary ELSE {}]
  /\ pass' = "idle"
  /\ store' = <<>>
  /\ UNCHANGED <<doc, engine, arena, queue>>

PassStep == VisitOther \/ VisitElement \/ EndTraversal \/ Lift
===============================================================================
