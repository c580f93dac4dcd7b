--------------------------------- MODULE Layout ---------------------------------
(***************************************************************************)
(* block::layout, the whole of crates/layout: the document becomes boxes   *)
(* and the boxes become fragments.  What a page must look like is stated   *)
(* here from the document, its computed values and the finished fragments. *)
(***************************************************************************)
EXTENDS BlockLayout, TreeWalk

(* A styled document: the children of a node are nodes, a text is a        *)
(* sequence, and what the cascade computed is as stylo hands it over.      *)
IsDocument(d) ==
  /\ 1 \in DOMAIN d.children
  /\ \A n \in DOMAIN d.children :
       /\ d.children[n] \in Seq(DOMAIN d.children) /\ d.text[n] \in Seq(ToSet(d.text[n]))
       /\ d.computed[n] = NoStyle \/ IsComputed(d.computed[n])
ASSUME DocumentAssumption ==
  \A family \in DOMAIN Documents : \A d \in Documents[family] : IsDocument(d)

vars == <<boxVars, layoutVars>>

Init == BoxInit /\ LayoutInit
Next == \/ BuildStep /\ UNCHANGED layoutVars
        \/ LayoutStep /\ UNCHANGED boxVars

(* The thread that lays out runs: weak fairness of Next, with the guards   *)
(* of the actions for ENABLED Next.                                        *)
CanStep == Unstarted \/ frames # <<>> \/ (root # 0 /\ memo = <<>>) \/ stack # <<>>
Runs == []<><<TRUE>>_vars \/ []<>(~ CanStep)
Spec == Init /\ [][Next]_vars /\ Runs

\* Laid out, and every glyph came from a bundled font.
Done == page # 0 /\ error = "none"

-----------------------------------------------------------------------------
(* dump.rs: a box or a fragment is told with how deep it is and what       *)
(* stands in its line; the lines of a text's runs follow its own.          *)
One(tree) == [i \in DOMAIN tree |-> 1]
Children(tree) == [i \in DOMAIN tree |-> tree[i].children]
BoxLine(top) == [indent |-> top.depth, is |-> boxes[top.id]]
box_tree_dump ==
  LET popped == popped_from(<<Popped(root, 0)>>, Children(boxes), One(boxes), Len(boxes))
  IN  [i \in DOMAIN popped |-> BoxLine(popped[i])]
FragmentLines(top) ==
  LET f == fragments[top.id]
  IN  <<[indent |-> top.depth, is |-> f]>>
        \o [r \in DOMAIN f.runs |-> [indent |-> top.depth + 1, is |-> f.runs[r]]]
fragment_tree_dump ==
  LET popped == popped_from(<<Popped(page, 0)>>, Children(fragments), One(fragments), Len(fragments))
  IN  FlattenSeq([i \in DOMAIN popped |-> FragmentLines(popped[i])])

-----------------------------------------------------------------------------
(* What the document says should be drawn.  Nodes are numbered in document *)
(* order.                                                                  *)
Nodes == DOMAIN doc.children
ParentOf(n) == CHOOSE p \in Nodes : n \in ToSet(doc.children[p])
Displayed(n) ==
  IF doc.computed[n] = NoStyle THEN n = root_element(doc) ELSE doc.computed[n].display # "none"
Holds(n) == doc.kind[n] = "Element" /\ Displayed(n) /\ (doc.local[n] # "br" \/ n = root_element(doc))
Open == LET open[n \in Nodes] == IF n = 1 THEN FALSE
                                 ELSE IF n = root_element(doc) THEN Holds(n)
                                 ELSE Holds(n) /\ open[ParentOf(n)]
        IN  {n \in Nodes : open[n]}
ShownTexts  == {n \in Nodes : doc.kind[n] = "Text" /\ ParentOf(n) \in Open}
ShownBreaks == {n \in Nodes : /\ doc.kind[n] = "Element" /\ doc.local[n] = "br"
                              /\ n # root_element(doc) /\ Displayed(n) /\ ParentOf(n) \in Open}
Preformatted(n) == doc.computed[ParentOf(n)] # NoStyle
                   /\ doc.computed[ParentOf(n)].text.collapse = "preserve"
Source == FlattenSeq([n \in Nodes |-> IF n \in ShownTexts THEN doc.text[n]
                                      ELSE IF n \in ShownBreaks THEN <<"lf">> ELSE <<>>])

\* The lines of the page in order, and each one's glyphs with the nodes they are from.
LineIds    == SelectSeq([f \in DOMAIN fragments |-> f], LAMBDA f : fragments[f].kind = "Line")
GlyphsOf(f) == FlattenSeq([r \in DOMAIN fragments[f].runs |-> fragments[f].runs[r].glyphs])
Drawn(line) ==
  LET texts == fragments[line].children
  IN  FlattenSeq([t \in DOMAIN texts |->
        [k \in DOMAIN GlyphsOf(texts[t]) |->
           [char |-> GlyphsOf(texts[t])[k], node |-> fragments[texts[t]].node]]])

(* Every letter of every displayed text is drawn exactly once, in the      *)
(* fragment of its own node and in its order, and so is every character of *)
(* a preformatted text that is not a line break; a text that is not        *)
(* displayed draws nothing.                                                *)
Letters(text)   == SelectSeq(text, LAMBDA c : ~ is_collapsible(c))
Unbroken(text)  == SelectSeq(text, LAMBDA c : c \notin {"lf", "cr"})
DrawnFrom(node) ==
  FlattenSeq([f \in DOMAIN fragments |->
                IF fragments[f].kind = "Text" /\ fragments[f].node = node THEN GlyphsOf(f) ELSE <<>>])
Occurrences(text) == [c \in ToSet(text) |-> Cardinality({i \in DOMAIN text : text[i] = c})]
TextIsDrawnOnce ==
  Done => \A n \in Nodes : doc.kind[n] = "Text" =>
    LET drawn == DrawnFrom(n)
        text  == doc.text[n]
    IN  IF n \notin ShownTexts THEN drawn = <<>>
        ELSE IF doc.rtl THEN Occurrences(Letters(drawn)) = Occurrences(Letters(text))
        ELSE /\ Letters(drawn) = Letters(text)
             /\ Preformatted(n) => drawn = Unbroken(text)

(* Two letters that share a line touch exactly if they touch in the        *)
(* source, whatever elements and comments are between them: white space    *)
(* collapses across nodes, but never away.  And no collapsible space       *)
(* starts a line, ends it, or follows another, unless preformatted text    *)
(* has a say in it.                                                        *)
WordsStayApart ==
  Done /\ ~ doc.rtl =>
    LET at  == SelectSeq([i \in DOMAIN Source |-> i], LAMBDA i : ~ is_collapsible(Source[i]))
        lines == LineIds
        glyphs == [l \in DOMAIN lines |-> Drawn(lines[l])]
        places == FlattenSeq([l \in DOMAIN lines |->
                    SelectSeq([k \in DOMAIN glyphs[l] |-> <<l, k>>],
                              LAMBDA p : ~ is_collapsible(glyphs[p[1]][p[2]].char))])
    IN  /\ Len(at) = Len(places)
        /\ \A j \in 2 .. Len(at) : places[j][1] = places[j - 1][1] =>
             (at[j] = at[j - 1] + 1 <=> places[j][2] = places[j - 1][2] + 1)
        /\ \A l \in DOMAIN lines : \A k \in DOMAIN glyphs[l] :
             (glyphs[l][k].char = "sp" /\ ~ Preformatted(glyphs[l][k].node)) =>
                /\ k < Len(glyphs[l])
                /\ IF k > 1 THEN glyphs[l][k - 1].char # "sp" \/ Preformatted(glyphs[l][k - 1].node)
                   ELSE \E n \in ShownTexts : Preformatted(n)

-----------------------------------------------------------------------------
(* Where blocks are.                                                       *)
BlockKinds == {"Block", "AnonymousBlock"}
FragmentOf(id) == CHOOSE f \in DOMAIN fragments :
                    fragments[f].of = id /\ fragments[f].kind \in BlockKinds
OfBox(id)    == fragments[FragmentOf(id)]
ParentBox(id) == CHOOSE b \in DOMAIN boxes : id \in ToSet(boxes[b].children)
BlockBoxes == {id \in DOMAIN boxes : is_block_level(boxes[id].kind)}

\* A tree's nodes in preorder, each with its depth below the first.
Preorder(tree, id) ==
  LET Deeper(nodes) == [i \in DOMAIN nodes |-> Popped(nodes[i].id, nodes[i].depth + 1)]
      from[n \in DOMAIN tree] ==
        <<Popped(n, 0)>> \o FlattenSeq([i \in DOMAIN tree[n].children |-> Deeper(from[tree[n].children[i]])])
  IN  from[id]

(* The page has one fragment for every block-level box and hangs together  *)
(* as the boxes do: a block over its blocks, or over its lines, a line     *)
(* over its texts, and every fragment but the root below exactly one       *)
(* other, made before it.  The dumps list boxes and fragments in this      *)
(* order, each as deep as it is, and their limits never cut them short.    *)
FragmentsMirrorBoxes ==
  Done =>
    /\ box_tree_dump = [i \in DOMAIN Preorder(boxes, root) |-> BoxLine(Preorder(boxes, root)[i])]
    /\ LET order == Preorder(fragments, page)
       IN  fragment_tree_dump = FlattenSeq([i \in DOMAIN order |-> FragmentLines(order[i])])
    /\ fragments[page].of = root /\ page = Len(fragments)
    /\ \A id \in BlockBoxes :
         Cardinality({f \in DOMAIN fragments :
                        fragments[f].of = id /\ fragments[f].kind \in BlockKinds}) = 1
    /\ \A f \in DOMAIN fragments :
         /\ Cardinality({p \in DOMAIN fragments : f \in ToSet(fragments[p].children)})
              = IF f = page THEN 0 ELSE 1
         /\ ToSet(fragments[f].children) \subseteq 1 .. f - 1
         /\ fragments[f].kind \in BlockKinds =>
              LET below == fragments[f].children
              IN  IF is_block_container(fragments[f].of)
                  THEN [i \in DOMAIN below |-> fragments[below[i]].of] = boxes[fragments[f].of].children
                  ELSE \A i \in DOMAIN below : /\ fragments[below[i]].kind = "Line"
                                               /\ fragments[below[i]].of = fragments[f].of

(* No box has a negative size, and what is not empty is inside the box     *)
(* around it, also where a sum has met the edge of the app unit's range;   *)
(* an empty content box may then lie beyond its border box.                *)
Inside(inner, outer) ==
  /\ inner.size >= 0
  /\ inner.size > 0 => outer.origin <= inner.origin /\ far_edge(inner) <= far_edge(outer)
BoxesNest ==
  Done => \A f \in DOMAIN fragments : \A a \in Axes :
    /\ Inside(fragments[f].padding_box[a], fragments[f].border_box[a])
    /\ Inside(fragments[f].content_box[a], fragments[f].padding_box[a])

\* No coordinate of the page met the edge of the range.
Exact ==
  \A f \in DOMAIN fragments : \A a \in Axes :
    LET r == fragments[f].border_box[a]
    IN  {r.origin, r.size, r.origin + r.size} \subseteq -MaxAu .. MaxAu - 1

\* How far a box's own position: relative moves it.
Definite ==
  LET definite[id \in DOMAIN boxes] ==   \* by depth: parents have larger ids
        \/ id = root /\ boxes[id].style.size.y # AutoLength
        \/ boxes[id].style.size.y.unit = "Px"
        \/ id # root /\ boxes[id].style.size.y.unit = "Percent" /\ definite[ParentBox(id)]
  IN  {id \in BlockBoxes : definite[id]}
HeightAround(id) == IF id = root THEN Some(Viewport.y)
                    ELSE IF ParentBox(id) \in Definite THEN Some(OfBox(ParentBox(id)).content_box.y.size)
                    ELSE None
WidthAround(id) == IF id = root THEN Viewport.x ELSE OfBox(ParentBox(id)).content_box.x.size
OwnShift(id, a) ==
  LET side(s) == IF a = "y" THEN resolve_len_against_height(s, HeightAround(id))
                 ELSE resolve_len_zero(s, WidthAround(id))
      near == boxes[id].style.offset[a][1]
      far  == boxes[id].style.offset[a][2]
  IN  IF boxes[id].style.position # "Relative" THEN 0
      ELSE IF near # AutoLength THEN side(near) ELSE - side(far)

ModelOf(id) == resolve_box_model(boxes[id].style, WidthAround(id), HeightAround(id))

\* Edges of a box as it would stand without its own shift.
Near(id, a) == OfBox(id).border_box[a].origin - OwnShift(id, a)
Far(id, a)  == Near(id, a) + OfBox(id).border_box[a].size
ContentNear(id, a) == OfBox(id).content_box[a].origin
ContentFar(id, a)  == far_edge(OfBox(id).content_box[a])

-----------------------------------------------------------------------------
(* Adjoining margins: a margin is a box and a side of it, top or bottom.   *)
MarginOf(m) == resolve_len_zero(boxes[m[1]].style.margin.y[m[2]], WidthAround(m[1]))

\* What the page's author asked for, read from the computed values.
Styled(id)  == boxes[id].node # NoNode /\ doc.computed[boxes[id].node] # NoStyle
Clips(id)   == Styled(id) /\ doc.computed[boxes[id].node].overflow_x \in {"hidden", "clip"}
Bordered(id, side) ==
  /\ Styled(id) /\ doc.computed[boxes[id].node].border_width.y[side] > 0
  /\ doc.computed[boxes[id].node].border_style.y[side] \notin {"none", "hidden"}

\* Nothing is between a box's edge and its first or last child's.
Opens(id, side) ==
  /\ id # root /\ is_block_container(id) /\ ~ Clips(id)
  /\ ~ Bordered(id, side) /\ boxes[id].style.padding.y[side].n = 0
  /\ side = 2 => id \notin Definite /\ ModelOf(id).min_height = 0

EdgeChild(id, side) == boxes[id].children[IF side = 1 THEN 1 ELSE Len(boxes[id].children)]
Adjoining ==   \* a box's margin and its child's, and those of two neighbours
  LET through == {<<m, <<EdgeChild(m[1], m[2]), m[2]>> >> :
                    m \in {o \in BlockBoxes \X {1, 2} : Opens(o[1], o[2])}}
      between == UNION {{<< <<boxes[p].children[i], 2>>, <<boxes[p].children[i + 1], 1>> >> :
                           i \in 1 .. Len(boxes[p].children) - 1} :
                        p \in {b \in BlockBoxes : is_block_container(b)}}
      pairs   == through \cup between
  IN  pairs \cup {<<p[2], p[1]>> : p \in pairs}
ClassOf(m, pairs) ==
  LET grow[k \in 0 .. Cardinality(BlockBoxes)] ==
        IF k = 0 THEN {m}
        ELSE LET reached == grow[k - 1]
             IN  reached \cup {p[2] : p \in {q \in pairs : q[1] \in reached}}
  IN  grow[Cardinality(BlockBoxes)]

\* CSS 2.1 8.3.1, over a whole class.
Collapsed(class) == LET values == {MarginOf(m) : m \in class}
                    IN  Max(values \cup {0}) + Min(values \cup {0})
MixesSignsAcrossSiblings(class) ==
  /\ \E m \in class : MarginOf(m) > 0
  /\ \E m \in class : MarginOf(m) < 0
  /\ {m[2] : m \in class} = {1, 2} /\ Cardinality(class) > 2

\* Each space above, between and below the blocks of a block, with the margins it is made of.
Gaps ==
  LET pairs == Adjoining
      class(m) == ClassOf(m, pairs)
      Above(p) == LET c == boxes[p].children[1]
                  IN  [space |-> Near(c, "y") - ContentNear(p, "y"),
                       class |-> IF Opens(p, 1) THEN {} ELSE class(<<c, 1>>)]
      Amid(p, i) == LET c == boxes[p].children[i]
                        IN  [space |-> Near(boxes[p].children[i + 1], "y") - Far(c, "y"),
                             class |-> class(<<c, 2>>)]
      Below(p) == LET c == EdgeChild(p, 2)
                  IN  [space |-> ContentFar(p, "y") - Far(c, "y"),
                       class |-> IF Opens(p, 2) THEN {} ELSE class(<<c, 2>>)]
      Containers == {p \in BlockBoxes : is_block_container(p)}
      Growing == {p \in Containers \ Definite :
                       /\ boxes[p].style.max_size.y = Unbounded
                       /\ OfBox(p).content_box.y.size > ModelOf(p).min_height}
  IN  {Above(p) : p \in Containers} \cup {Below(p) : p \in Growing}
        \cup UNION {{Amid(p, i) : i \in 1 .. Len(boxes[p].children) - 1} : p \in Containers}

(* Every vertical space of the page is what the whole set of margins that  *)
(* adjoin there collapses to, however deep the chains on either side are   *)
(* and whatever the memo held when it was worked out: none is used twice,  *)
(* dropped, or let through a padding, a border, a height or a clip.  The   *)
(* case the next property is about is left out.                            *)
GapsAreCollapsedMargins ==
  (Done /\ Exact) => \A gap \in Gaps : gap.space = Collapsed(gap.class)
                                       \/ MixesSignsAcrossSiblings(gap.class)

(* block.rs says that a whole set of adjoining margins is collapsed at     *)
(* once, never pairwise; between siblings this is to hold as well.         *)
SiblingGapsAreCollapsedMargins ==
  (Done /\ Exact) => \A gap \in Gaps : gap.space = Collapsed(gap.class)
-----------------------------------------------------------------------------
(* Sizes.                                                                  *)
Around(id, a) == OfBox(id).border_box[a].size - OfBox(id).content_box[a].size
Sized(id, a)  == IF boxes[id].style.box_sizing = "BorderBox" THEN OfBox(id).border_box[a].size
                 ELSE OfBox(id).content_box[a].size
AtLeast(id, a, n) == IF boxes[id].style.box_sizing = "BorderBox" THEN Larger(n, Around(id, a)) ELSE n

\* A size, minimum or maximum in app units; <<>> where there is none.
Given(id, a, l) ==
  IF l.unit = "Px" THEN Some(l.n)
  ELSE IF l.unit \in {"Auto", "None"} THEN None
  ELSE IF a = "x" THEN Some(mul_by_f32(WidthAround(id), l.n))
  ELSE IF HeightAround(id) = None THEN None ELSE Some(mul_by_f32(HeightAround(id)[1], l.n))

(* The box that box-sizing names has its given size where that is between  *)
(* its minimum and its maximum, else the bound, and of the bounds the      *)
(* minimum wins; never less than its padding and border.                   *)
SizeIsGiven ==
  (Done /\ Exact) => \A id \in BlockBoxes : \A a \in Axes :
    LET style == boxes[id].style
        size  == Given(id, a, style.size[a])
        least == unwrap_or(Given(id, a, style.min_size[a]), 0)
        most  == Given(id, a, style.max_size[a])
        top   == Larger(unwrap_or(most, MaxAu), least)
    IN  /\ Sized(id, a) >= least
        /\ Sized(id, a) <= AtLeast(id, a, top)
        /\ size # None => Sized(id, a) = AtLeast(id, a, clamp(size[1], least, top))

(* A block's margins, border box and its containing block make the width   *)
(* equation of CSS 2.1 10.3.3: an auto width fills what its margins leave, *)
(* where it does not or is not auto, auto margins share or take the rest   *)
(* and none of them is ever negative on both sides; given margins are      *)
(* used.                                                                   *)
WidthsAddUp ==
  (Done /\ Exact) => \A id \in BlockBoxes \ {root} :
    LET style  == boxes[id].style
        cb     == ParentBox(id)
        left   == Near(id, "x") - ContentNear(cb, "x")
        right  == ContentFar(cb, "x") - Far(id, "x")
        is_auto(i) == style.margin.x[i] = AutoLength
        margin(i) == resolve_len_zero(style.margin.x[i], WidthAround(id))
        fills  == left = margin(1) /\ (right = margin(2) \/ OfBox(id).content_box.x.size = 0)
    IN  /\ ~ is_auto(1) => left = margin(1)
        /\ style.size.x = AutoLength =>
             \/ fills
             \/ Sized(id, "x") \in {AtLeast(id, "x", unwrap_or(Given(id, "x", b), 0)) :
                                     b \in {style.min_size.x, style.max_size.x}}
        /\ (~ fills \/ style.size.x # AutoLength) =>
             /\ is_auto(1) /\ is_auto(2) =>
                  IF left + right >= 0 THEN right - left \in {0, 1} ELSE left = 0
             /\ is_auto(1) /\ ~ is_auto(2) => right = margin(2)

-----------------------------------------------------------------------------
\* No position: relative moves a box or what is around it.
Unmoved(id, a) ==
  LET still[b \in BlockBoxes] == OwnShift(b, a) = 0 /\ (b = root \/ still[ParentBox(b)])
  IN  still[id]

\* A text's glyphs start where its box does.
StartsInItsBox(text) == text.runs[1].x = text.border_box.x.origin

(* A line stands below the one before it, the first one at the top of its  *)
(* block's content box, and as high and wide as its text: also after the   *)
(* block or an ancestor was moved by position: relative.  The glyphs start *)
(* in the box of their text; for moved blocks TextMovesWithItsBlock asks.  *)
LinesStandInTheirBlock ==
  (Done /\ Exact) => \A id \in BlockBoxes : ~ is_block_container(id) =>
    LET lines == OfBox(id).children
        box   == OfBox(id).content_box
    IN  /\ \A l \in DOMAIN lines :
             LET line == fragments[lines[l]]
             IN  /\ line.border_box.x = box.x
                 /\ line.border_box.y.origin =
                      IF l = 1 THEN box.y.origin ELSE far_edge(fragments[lines[l - 1]].border_box.y)
                 /\ \A t \in ToSet(line.children) :
                      /\ fragments[t].border_box.y = line.border_box.y
                      /\ Unmoved(id, "x") => StartsInItsBox(fragments[t])
                      /\ line.border_box.x.origin <= fragments[t].border_box.x.origin
        /\ (lines # <<>> /\ id \notin Definite /\ boxes[id].style.max_size.y = Unbounded) =>
             ContentFar(id, "y") >= far_edge(fragments[lines[Len(lines)]].border_box.y)

(* Every block has the sizes its style asks for, its margins the width     *)
(* they leave, and its lines stand in it.  resolve_box_model,              *)
(* resolve_width_and_margins, resolve_height, shift_from.                  *)
SizesAsSpecified == SizeIsGiven /\ WidthsAddUp /\ LinesStandInTheirBlock

(* finalize_top "applies its position: relative offset to itself and its   *)
(* whole subtree", and a run's origin is "in the same absolute coordinate  *)
(* space" as the boxes: a text that is moved takes its glyphs along.       *)
TextMovesWithItsBlock ==
  (Done /\ Exact) => \A f \in DOMAIN fragments :
    fragments[f].kind = "Text" => StartsInItsBox(fragments[f])

\* Whatever the document, layout returns.
LayoutReturns == <>(page # 0)
================================================================================
