-------------------------------- MODULE MCLayout --------------------------------
(***************************************************************************)
(* Documents for layout.  Node 1 is the document, node 2 its html element, *)
(* the others are numbered in document order.  A family varies one thing:  *)
(* what is in the page, its vertical margins, its widths, or sizes near    *)
(* the edge of the app unit's range.                                       *)
(***************************************************************************)
EXTENDS Layout

Screen == [x |-> 20, y |-> 30]

PlainText == [color |-> "black", families |-> <<[generic |-> TRUE, name |-> "serif"]>>, size |-> 1,
              weight |-> 400, style |-> "normal", line_height |-> [key |-> "px", px |-> 2],
              align |-> "start", collapse |-> "collapse"]
BlockValues ==
  [display |-> "block", position |-> "static", size |-> Both(Keyword("auto")),
   min_size |-> Both(Keyword("auto")), max_size |-> Both(Keyword("none")),
   margin |-> Uniform(Length(0)), padding |-> Uniform(Length(0)), border_width |-> Uniform(0),
   border_style |-> Uniform("none"), box_sizing |-> "content-box", overflow_x |-> "visible",
   inset |-> Uniform(Keyword("auto")), background |-> "transparent", text |-> PlainText]
InlineValues == [BlockValues EXCEPT !.display = "inline"]
Hidden       == [BlockValues EXCEPT !.display = "none"]

Element(cv) == [kind |-> "Element", local |-> "div", text |-> <<>>, computed |-> cv]
LineBreak   == [Element(InlineValues) EXCEPT !.local = "br"]
TextNode(t) == [kind |-> "Text", local |-> "", text |-> t, computed |-> NoStyle]
Comment     == [TextNode(<<>>) EXCEPT !.kind = "Comment"]
DocumentNode == [Comment EXCEPT !.kind = "Document"]

\* A page of an html element and what is below it, from the third node on.
PageOf(children, html, below) ==
  LET nodes == <<DocumentNode, html>> \o below
  IN  [children |-> children, rtl |-> FALSE, bundled |-> TRUE,
       kind     |-> [n \in DOMAIN nodes |-> nodes[n].kind],
       local    |-> [n \in DOMAIN nodes |-> nodes[n].local],
       text     |-> [n \in DOMAIN nodes |-> nodes[n].text],
       computed |-> [n \in DOMAIN nodes |-> nodes[n].computed]]

-----------------------------------------------------------------------------
(* What is in a page: every tree of three nodes below html.                *)
Html == Element(BlockValues)
Preserved(cv) == [cv EXCEPT !.text.collapse = "preserve"]
Texts  == {TextNode(<<"sp">>), TextNode(<<"a", "sp">>), TextNode(<<"sp", "b">>)}
Others == {LineBreak, Comment, Element(Hidden), Element(NoStyle)}
Holders == {Element(InlineValues), Element(BlockValues), Element(Preserved(InlineValues)),
            Element(Hidden)}
PreTexts == {TextNode(<<"sp", "lf", "a", "cr", "lf">>)}

Flat   == {PageOf(<< <<2>>, <<3, 4, 5>>, <<>>, <<>>, <<>> >>, Html, <<a, b, c>>) :
             a, b, c \in Texts \cup Others \cup Holders \cup {Element([BlockValues EXCEPT !.display = "flex"])}}
First  == {PageOf(<< <<2>>, <<3, 5>>, <<4>>, <<>>, <<>> >>, Html, <<a, b, c>>) :
             a \in Holders, b \in Texts \cup Others \cup Holders \cup PreTexts,
             c \in Texts \cup Holders \cup {LineBreak}}
Second == {PageOf(<< <<2>>, <<3, 4>>, <<>>, <<5>>, <<>> >>, Html, <<a, b, c>>) :
             a \in Texts \cup Holders, b \in Holders,
             c \in Texts \cup Others \cup Holders \cup PreTexts}
Pair   == {PageOf(<< <<2>>, <<3>>, <<4, 5>>, <<>>, <<>> >>, Html, <<a, b, c>>) :
             a \in Holders, b, c \in Texts \cup Others \cup Holders}
Deep   == {PageOf(<< <<2>>, <<3>>, <<4>>, <<5>>, <<>> >>, Html, <<a, b, c>>) :
             a, b \in Holders \cup {LineBreak}, c \in Texts \cup Others \cup Holders}
Roots  == {PageOf(<< <<2>>, <<>> >>, Comment, <<>>)} \cup
          {PageOf(<< <<2>>, <<3>>, <<>> >>, h, <<t>>) :
             h \in Holders \cup {LineBreak, Element(NoStyle)}, t \in Texts}
Aligned == {PageOf(<< <<2>>, <<3, 4>>, <<>>, <<>> >>,
                   Element([BlockValues EXCEPT !.text.align = align]), <<a, b>>) :
              align \in {"start", "center", "-moz-right"}, a, b \in Texts}
Faults == {[p EXCEPT !.rtl = r, !.bundled = b] :
             p \in Aligned \cup {q \in Pair : q.kind[4] = "Text"}, r, b \in BOOLEAN}

-----------------------------------------------------------------------------
(* Vertical margins: a body (3) with two blocks (4, 6) that hold one each  *)
(* (5, 7); what is between a block's margin and its child's is a choice.   *)
Vertical(cv, t, b) == [cv EXCEPT !.margin.y = <<Length(t), Length(b)>>]
Separators ==
  LET cv == BlockValues IN
  {cv, [cv EXCEPT !.padding.y = <<Length(1), Length(0)>>],
   [cv EXCEPT !.padding.y = <<Length(0), Length(1)>>],
   [cv EXCEPT !.border_width.y = <<1, 1>>, !.border_style.y = <<"none", "solid">>],
   [cv EXCEPT !.border_width.y = <<1, 1>>, !.border_style.y = <<"solid", "none">>],
   [cv EXCEPT !.overflow_x = "hidden"], [cv EXCEPT !.overflow_x = "scroll"],
   [cv EXCEPT !.size.y = Length(4)], [cv EXCEPT !.size.y = Percentage(50)],
   [cv EXCEPT !.min_size.y = Length(1)],
   [cv EXCEPT !.position = "relative", !.inset.y = <<Length(3), Keyword("auto")>>],
   [cv EXCEPT !.position = "relative", !.inset = Uniform(Percentage(-10))]}
TwoByTwo == << <<2>>, <<3>>, <<4, 6>>, <<5>>, <<>>, <<7>>, <<>> >>
Some3 == {-3, 0, 5}
MarginsMeet ==
  {PageOf(TwoByTwo, Html,
          <<Element(Vertical(BlockValues, body, body)),
            Element(Vertical(above, 5, m)), Element(Vertical(BlockValues, 2, n)),
            Element(Vertical(below, o, -3)), Element(Vertical(BlockValues, p, 5))>>) :
     body \in {0, 7}, above \in Separators, below \in Separators,
     m, p \in Some3, n \in {-3, 5}, o \in {0, 5}}
SiblingsMixed ==
  {PageOf(TwoByTwo, Html,
          <<Element(BlockValues), Element(Vertical(BlockValues, 0, 5)),
            Element(Vertical(BlockValues, 0, -3)), Element(Vertical(BlockValues, -2, 0)),
            Element(BlockValues)>>)}

-----------------------------------------------------------------------------
(* Sizes: a block (4) in a body (3) and a line of text in it.              *)
Chain == << <<2>>, <<3>>, <<4>>, <<5>>, <<6>>, <<>> >>
WithSizes(cv, size, least, most) ==
  [cv EXCEPT !.size = Both(size), !.min_size = Both(least), !.max_size = Both(most)]
SizesMeet ==
  {PageOf(Chain, Html,
          <<Element(BlockValues),
            Element([WithSizes(BlockValues, size, least, most) EXCEPT
                       !.margin.x = <<l, r>>, !.box_sizing = sizing,
                       !.padding = Uniform(pad), !.border_width = Both(<<1, 2>>),
                       !.border_style = Uniform(border)]),
            Element([BlockValues EXCEPT !.size.y = Percentage(50)]), TextNode(<<"a">>)>>) :
     size \in {Keyword("auto"), Length(3), Length(30), Percentage(45)},
     least \in {Keyword("auto"), Length(7), Percentage(40)},
     most \in {Keyword("none"), Length(5), Calc(9, 50)},
     l \in {Length(0), Length(-2), Keyword("auto")}, r \in {Length(3), Keyword("auto")},
     sizing \in {"content-box", "border-box"}, pad \in {Length(0), Percentage(15)},
     border \in {"solid", "hidden"}}

\* A text in a block that position: relative moves.
RelativeText ==
  {PageOf(<< <<2>>, <<3>>, <<4>>, <<5>>, <<>> >>, Html,
          <<Element(BlockValues),
            Element([BlockValues EXCEPT !.position = "relative",
                                        !.inset.x = <<Length(3), Keyword("auto")>>]),
            TextNode(<<"a">>)>>)}

\* Lengths as large as a page can say them; stylo allows a border half of that.
Huge == {0, 1, MaxAu}
SizesSaturate ==
  {PageOf(<< <<2>>, <<3>>, <<4>>, <<5>>, <<>> >>, Html,
          <<Element([BlockValues EXCEPT !.margin = Both(<<Length(m), Length(0)>>),
                       !.padding = Uniform(Length(p)), !.border_width = Uniform(b \div 2),
                       !.border_style = Uniform("solid")]),
            Element([BlockValues EXCEPT !.size = Both(Length(s)), !.padding = Both(<<Length(q), Length(p)>>),
                       !.position = "relative", !.inset = Uniform(Length(o))]),
            TextNode(<<"a">>)>>) :
     m \in Huge \cup {-MaxAu - 1}, p, b, s, q \in Huge, o \in Huge \cup {-MaxAu - 1}}

AllPages == <<Flat, First, Second, Pair, Deep, Roots, Faults, MarginsMeet, SizesMeet, SizesSaturate>>
SiblingPages == <<SiblingsMixed>>
RelativePages == <<RelativeText>>
================================================================================
