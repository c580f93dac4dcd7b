------------------------------- MODULE TreeDump --------------------------------
(***************************************************************************)
(* serialize.rs of crates/dom and dump.rs of crates/style: the dumps of a  *)
(* document, walks with a stack of their own.  A line is how far it is     *)
(* indented and the node it tells of, with the names of an element's       *)
(* attributes: they follow it one deeper, sorted.                          *)
(***************************************************************************)
EXTENDS StyleTree, TreeWalk

VARIABLE dump  \* the lines so far, the stack, and how many nodes may still be popped

Line(indent, d, n) == [indent |-> indent, node |-> n,
                       attrs |-> IF is_element(d, n) THEN DOMAIN d.attrs[n] ELSE {}]
ContentLine(indent) == [indent |-> indent, node |-> NoNode, attrs |-> {}]
push_node_lines(d, n, depth) ==
  IF d.kind[n] \in {"Document", "DocumentFragment"} THEN <<>> ELSE <<Line(depth - 1, d, n)>>

\* Mutant of push_children: the children are pushed first child first.
push_children_forward(d, p, depth) == pushed_forward(d.children[p], depth)
push_children(d, p, depth) == pushed(d.children[p], depth)

NewDump(d) == [lines |-> <<>>, stack |-> push_children(d, 1, 1), remaining |-> Cardinality(Nodes(d))]
DumpEnds == dump.stack = <<>> \/ dump.remaining = 0

\* html5lib_tree: one node popped, its line, and what is below it pushed.
DumpNode(d) ==
  /\ ~ DumpEnds
  /\ LET popped    == Last(dump.stack)
         n         == popped.id
         lines     == dump.lines \o push_node_lines(d, n, popped.depth)
         next(l, s) == [lines |-> l, stack |-> Front(dump.stack) \o s, remaining |-> dump.remaining - 1]
     IN  dump' =
           IF is_element(d, n) /\ d.contents[n] # NoNode
           THEN next(Append(lines, ContentLine(popped.depth)),
                     push_children(d, d.contents[n], popped.depth + 2))
           ELSE IF is_element(d, n) THEN next(lines, push_children(d, n, popped.depth + 1))
           ELSE IF d.kind[n] = "DocumentFragment" THEN next(lines, push_children(d, n, popped.depth))
           ELSE next(lines, <<>>)

-----------------------------------------------------------------------------
(* dump.rs of crates/style: the elements with their computed style, or     *)
(* that there is none; a template's contents are not walked.               *)
StyleLine(computed, top) == [indent |-> top.depth - 1, node |-> top.id, style |-> computed[top.id]]
computed_style_dump(d, computed) ==
  LET step   == [n \in Nodes(d) |-> IF is_element(d, n) THEN 1 ELSE 0]
      popped == popped_from(push_children(d, 1, 1), d.children, step, Cardinality(Nodes(d)))
      tops   == SelectSeq(popped, LAMBDA top : is_element(d, top.id))
  IN  [i \in DOMAIN tops |-> StyleLine(computed, tops[i])]
===============================================================================
