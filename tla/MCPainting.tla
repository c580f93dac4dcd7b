------------------------------ MODULE MCPainting ------------------------------
(***************************************************************************)
(* Pages of three fragments: an html block, a body block and a third, a    *)
(* block or a text, in body or beside it, placed in, across, beside and    *)
(* beyond the viewport and its margin.                                     *)
(***************************************************************************)
EXTENDS Painting, MCPaintBuild

CONSTANTS
  Offsets,    \* of the glyph of a text fragment from the origin of its run
  TextOnly    \* the third fragment is a text

Span(from, to) == [origin |-> from, size |-> to - from]
Sides == <<1, 1>>
Spans == {Span(0, 4), Span(1, 3), Span(2, 10), Span(-3, 1), Span(8, 10), Span(12, 14),
          Span(0, 0), Span(-6, 14)}

Box(element, span, background, hidden, bordered, children) ==
  [kind |-> "Block", element |-> element, border_box |-> span,
   border |-> IF bordered THEN Sides ELSE <<0, 0>>, solid |-> <<bordered, bordered>>,
   background |-> background, hidden |-> hidden, runs |-> <<>>, children |-> children]
Text(origin, offset) ==
  [kind |-> "Text", element |-> "other", border_box |-> Span(origin, origin + 2),
   border |-> <<0, 0>>, solid |-> <<FALSE, FALSE>>, background |-> FALSE, hidden |-> FALSE,
   runs |-> <<[font |-> "known", size |-> 1, origin |-> origin, opaque |-> TRUE,
               glyphs |-> <<[id |-> "a", x |-> offset]>>]>>,
   children |-> <<>>]

\* Layout makes no border box smaller than its borders.
Boxes(element, backgrounds, hiddens) ==
  {Box(element, s, b, h, w, <<>>) : s \in Spans, b \in backgrounds, h \in hiddens, w \in BOOLEAN}
LaidOutBoxes(boxes) == {f \in boxes : f.border_box.size >= f.border[1] + f.border[2]}

Roots  == {Box("html", Bounds, b, h, FALSE, <<>>) : b, h \in BOOLEAN}
Bodies == LaidOutBoxes(Boxes("body", BOOLEAN, BOOLEAN))
Thirds == (IF TextOnly THEN {} ELSE LaidOutBoxes(Boxes("other", {TRUE}, {FALSE})))
          \cup {Text(o, x) : o \in {-5, -4, 0, 3, 8, 9}, x \in Offsets}

Page(root, body, third, inside) ==
  [root |-> 1,
   fragments |-> <<[root EXCEPT !.children = IF inside THEN <<2>> ELSE <<2, 3>>],
                   [body EXCEPT !.children = IF inside THEN <<3>> ELSE <<>>],
                   third>>]
Pages == {Page(r, b, t, i) : r \in Roots, b \in Bodies, t \in Thirds, i \in BOOLEAN}
PagesOnly == <<Pages>>

\* Laid-out pages, and fragments that name each other in any way.
PagesAndAnyTrees == <<Pages, AnyTrees>>
===============================================================================
