------------------------------ MODULE BlockLayout ------------------------------
(***************************************************************************)
(* block.rs of crates/layout: block-and-inline layout of a box tree with   *)
(* an explicit stack.  A step places one child, or finishes one block and  *)
(* hands its height and bottom margin to its parent.  What a child's       *)
(* margins collapse to is worked out down its first- or last-child chain   *)
(* and remembered per box.                                                 *)
(***************************************************************************)
EXTENDS InlineLayout

CONSTANTS Viewport  \* its size on each axis

ASSUME ViewportAssumption == Viewport \in [Axes -> 0 .. MaxAu]

VARIABLES
  stack,     \* frames of the blocks being laid out, the top first
  fragments, \* the fragment arena; an id is a position
  memo,      \* MarginMemo: for side 1 (top) and 2 (bottom), by box, <<>> or <<margin>>
  page,      \* the root fragment once layout has returned, 0 before
  error      \* Ctx::error

layoutVars == <<stack, fragments, memo, page, error>>

None     == <<>>
Some(v)  == <<v>>
unwrap_or(option, v) == IF option = None THEN v ELSE option[1]

resolve_len_zero(l, against) ==
  IF l.unit = "Px" THEN l.n ELSE IF l.unit = "Percent" THEN mul_by_f32(against, l.n) ELSE 0
resolve_len_against_height(l, against) ==
  IF l.unit = "Percent" THEN IF against = None THEN 0 ELSE mul_by_f32(against[1], l.n)
  ELSE resolve_len_zero(l, 0)

\* Mutant of clamp_au: a maximum below the minimum wins.
clamp_au_max(v, least, most) ==
  IF most # None /\ Larger(v, least) > most[1] THEN most[1] ELSE Larger(v, least)

\* The minimum wins over a smaller maximum.
clamp_au(v, least, most) ==
  IF most = None THEN Larger(v, least) ELSE Smaller(Larger(v, least), Larger(most[1], least))

add(a, b)    == saturating_add(a, b)
non_content(padding, border) == add(add(add(padding[1], padding[2]), border[1]), border[2])

\* Mutant of used_content_size: box-sizing is not looked at.
used_content_size_content_box(specified, box_sizing, around) ==
  specified

used_content_size(specified, box_sizing, around) ==
  IF box_sizing = "ContentBox" THEN specified ELSE Larger(saturating_sub(specified, around), 0)

-----------------------------------------------------------------------------
\* Mutant of auto_margins: what is left over is halved even when it is negative.
auto_margins_halved(left_auto, right_auto, left, right, free) ==
  IF left_auto /\ right_auto THEN <<free \div 2, free - free \div 2>>
  ELSE IF left_auto THEN <<saturating_sub(free, right), right>>
  ELSE IF right_auto THEN <<left, saturating_sub(free, left)>> ELSE <<left, right>>

\* AutoLength margins share what is left over, and nothing where that is negative.
auto_margins(left_auto, right_auto, left, right, free) ==
  IF left_auto /\ right_auto
  THEN IF free >= 0 THEN <<free \div 2, free - free \div 2>> ELSE <<0, 0>>
  ELSE IF left_auto THEN <<saturating_sub(free, right), right>>
  ELSE IF right_auto THEN <<left, saturating_sub(free, left)>>
  ELSE <<left, right>>

\* A length of the style as a content size, and the style's bounds of one.
used_length(l, against, style, around) ==
  used_content_size(resolve_len_zero(l, against), style.box_sizing, around)
size_bounds(style, axis, against, around) ==
  [least |-> used_length(style.min_size[axis], against, style, around),
   most  |-> IF style.max_size[axis] = Unbounded THEN None
             ELSE Some(used_length(style.max_size[axis], against, style, around))]
clamp_to(v, bounds) == clamp_au(v, bounds.least, bounds.most)

tentative_width(style, cb_width, around, margins) ==
  IF style.size.x # AutoLength THEN used_length(style.size.x, cb_width, style, around)
  ELSE Larger(saturating_sub(saturating_sub(saturating_sub(cb_width, margins[1]), around),
                             margins[2]), 0)

\* An auto width that no bound changed leaves no margin to share out.
side_margins(style, cb_width, around, margins, tentative, width) ==
  [width   |-> width,
   margins |-> IF style.size.x = AutoLength /\ width = tentative THEN margins
               ELSE auto_margins(style.margin.x[1] = AutoLength, style.margin.x[2] = AutoLength,
                                 margins[1], margins[2],
                                 saturating_sub(cb_width, add(around, width)))]
bounded_width(style, cb_width, around, margins, tentative) ==
  side_margins(style, cb_width, around, margins, tentative,
               clamp_to(tentative, size_bounds(style, "x", cb_width, around)))
width_between(style, cb_width, around, margins) ==
  bounded_width(style, cb_width, around, margins,
                tentative_width(style, cb_width, around, margins))

(* resolve_width_and_margins: the used content width and side margins;     *)
(* the margins come first, then the width before and after its bounds.     *)
resolve_width_and_margins(style, cb_width, padding, border) ==
  width_between(style, cb_width, non_content(padding, border),
                [i \in 1 .. 2 |-> resolve_len_zero(style.margin.x[i], cb_width)])

\* A percentage of a height that is not known is no height.
resolve_height(style, cb_height, around) ==
  IF style.size.y = AutoLength \/ (style.size.y.unit = "Percent" /\ cb_height = None) THEN None
  ELSE Some(used_length(style.size.y, unwrap_or(cb_height, 0), style, around))

(* resolve_box_model, one value after the other: the padding, what is      *)
(* around a content height, then the record of all of them.                *)
box_model_of(style, cb_width, padding, across, bounds, height) ==
  [margin_left |-> across.margins[1], content_width |-> across.width,
   margins |-> [i \in 1 .. 2 |-> resolve_len_zero(style.margin.y[i], cb_width)],
   padding |-> padding, border |-> style.border_width,
   min_height |-> bounds.least, max_height |-> bounds.most,
   known_height |-> IF height = None THEN None ELSE Some(clamp_to(height[1], bounds))]
box_model_within(style, cb_width, cb_height, padding, around) ==
  box_model_of(style, cb_width, padding,
               resolve_width_and_margins(style, cb_width, padding.x, style.border_width.x),
               size_bounds(style, "y", unwrap_or(cb_height, 0), around),
               resolve_height(style, cb_height, around))
padded_box_model(style, cb_width, cb_height, padding) ==
  box_model_within(style, cb_width, cb_height, padding,
                   non_content(padding.y, style.border_width.y))
resolve_box_model(style, cb_width, cb_height) ==
  padded_box_model(style, cb_width, cb_height,
    [a \in Axes |-> [i \in 1 .. 2 |-> resolve_len_zero(style.padding[a][i], cb_width)]])

establishes_bfc(style) == style.overflow # "Visible"

\* The first (side 1) or last (side 2) child of a box if it is block-level, or 0.
edge_block_child(id, side) ==
  LET children == boxes[id].children
      child    == IF side = 1 THEN children[1] ELSE children[Len(children)]
  IN  IF children = <<>> THEN 0 ELSE IF block_child(boxes, child) THEN child ELSE 0
first_block_child(id) == edge_block_child(id, 1)

is_block_container(id) == first_block_child(id) # 0

-----------------------------------------------------------------------------
\* Mutant of margin_passes_top: a border does not stop the margin.
margin_passes_top_border(style, model) == ~ establishes_bfc(style) /\ model.padding.y[1] = 0

(* Nothing separates a block's top margin from its first child's, or its   *)
(* bottom margin from its last child's.                                    *)
margin_passes_top(style, model) ==
  ~ establishes_bfc(style) /\ model.padding.y[1] = 0 /\ model.border.y[1] = 0
margin_passes_bottom(style, model) ==
  /\ ~ establishes_bfc(style) /\ model.known_height = None /\ model.min_height = 0
  /\ model.padding.y[2] = 0 /\ model.border.y[2] = 0
margin_passes(side, style, model) ==
  IF side = 1 THEN margin_passes_top(style, model) ELSE margin_passes_bottom(style, model)

collapse_margin_set(margins) ==
  add(Max(margins \cup {0}), Min(margins \cup {0}))
collapse_margins(a, b) == collapse_margin_set({a, b})

\* One link more: the child the chain ends in hands the margin on, or not.
linked(side, id, model, chain) ==
  [chain    |-> Append(chain, [id |-> id, margin |-> model.margins[side]]),
   eligible |-> margin_passes(side, boxes[id].style, model),
   width    |-> model.content_width]
next_link(side, known, s) ==
  LET child == edge_block_child(s.chain[Len(s.chain)].id, side)
  IN  IF ~ s.eligible \/ child = 0 THEN s
      ELSE IF known[child] # None THEN s   \* defensive stop
      ELSE linked(side, child, resolve_box_model(boxes[child].style, s.width, None), s.chain)

margin_chain(side, id, model, known) ==
  LET links[k \in 0 .. Len(boxes)] ==
        IF k = 0 THEN linked(side, id, model, <<>>) ELSE next_link(side, known, links[k - 1])
  IN  links[Len(boxes)].chain

suffix_margins(chain, i) == {chain[k].margin : k \in i .. Len(chain)}

\* Every box of the chain gets the margin its part of the chain collapses to.
memoize_suffix_collapse(chain, known) ==
  [id \in DOMAIN known |->
     LET At == {i \in DOMAIN chain : chain[i].id = id}
     IN  IF At = {} THEN known[id]
         ELSE Some(collapse_margin_set(suffix_margins(chain, CHOOSE i \in At : TRUE)))]

\* What a box's memo of one side is after its margin was asked for.
effective_margin(side, id, model, known) ==
  IF known[id] # None THEN known
  ELSE memoize_suffix_collapse(margin_chain(side, id, model, known), known)
effective_margin_top(id, model, known)    == effective_margin(1, id, model, known)
effective_margin_bottom(id, model, known) == effective_margin(2, id, model, known)

-----------------------------------------------------------------------------
content_origin_of(origin, model) ==
  [x |-> add(add(origin.x, model.padding.x[1]), model.border.x[1]),
   y |-> add(add(origin.y, model.padding.y[1]), model.border.y[1])]

LayoutFrame(id, frag_start, origin, model, cb_height, cb_width, passes, bottom) ==
  [id |-> id, frag_start |-> frag_start, origin |-> origin, model |-> model,
   content_origin |-> content_origin_of(origin, model), cb_width |-> cb_width,
   cb_height |-> cb_height, first_child_collapse_eligible |-> passes[1],
   bottom_collapse_eligible |-> passes[2], next_child |-> 1, running_content_bottom |-> 0,
   prev_margin_bottom |-> None, children |-> <<>>, effective_margin_bottom |-> bottom]

\* Mutant of gap_before: the margin that went to the parent is used here too.
gap_before_always(parent, eff_top) ==
  IF parent.prev_margin_bottom = None THEN eff_top
  ELSE collapse_margins(parent.prev_margin_bottom[1], eff_top)

gap_before(parent, eff_top) ==
  IF parent.prev_margin_bottom # None
  THEN collapse_margins(parent.prev_margin_bottom[1], eff_top)
  ELSE IF parent.first_child_collapse_eligible THEN 0 ELSE eff_top

(* place_child: the child's box model, where its border box starts, and    *)
(* what is remembered of margins afterwards.                               *)
place_child_at(id, parent, model, known) ==
  [model  |-> model, memo |-> known,
   bottom |-> unwrap_or(known[2][id], model.margins[2]),
   origin |-> [x |-> add(parent.content_origin.x, model.margin_left),
               y |-> add(add(parent.content_origin.y, parent.running_content_bottom),
                         gap_before(parent, unwrap_or(known[1][id], model.margins[1])))],
   cb_width  |-> parent.model.content_width,
   cb_height |-> parent.model.known_height]
place_child_of(id, parent, model) ==
  place_child_at(id, parent, model, <<effective_margin_top(id, model, memo[1]),
                                      effective_margin_bottom(id, model, memo[2])>>)
place_child(id, parent) ==
  place_child_of(id, parent,
    resolve_box_model(boxes[id].style, parent.model.content_width, parent.model.known_height))

-----------------------------------------------------------------------------
resolve_offset(style, cb_width, cb_height) ==
  LET x == style.offset.x
      y == style.offset.y
  IN  [x |-> IF x[1] # AutoLength THEN resolve_len_zero(x[1], cb_width)
             ELSE saturating_sub(0, resolve_len_zero(x[2], cb_width)),
       y |-> IF y[1] # AutoLength THEN resolve_len_against_height(y[1], cb_height)
             ELSE saturating_sub(0, resolve_len_against_height(y[2], cb_height))]

shift_rect(r, by) == [a \in Axes |-> [r[a] EXCEPT !.origin = add(@, by[a])]]
\* The three boxes; the runs of a text keep their absolute origins.
shift_fragment(f, by) ==
  [f EXCEPT !.border_box = shift_rect(@, by), !.padding_box = shift_rect(@, by),
            !.content_box = shift_rect(@, by)]

\* Mutant of shift_from: only the box itself moves.
shift_from_last(all, frag_start, by) ==
  [i \in DOMAIN all |-> IF i = Len(all) THEN shift_fragment(all[i], by) ELSE all[i]]

\* A relative box takes along the boxes of every fragment made since it was entered.
shift_from(all, frag_start, by) ==
  [i \in DOMAIN all |-> IF i > frag_start THEN shift_fragment(all[i], by) ELSE all[i]]

\* The fragment of a block, of its border box down to its content box.
block_fragment(id, origin, model, content_height, children) ==
  LET width(a)  == IF a = "x" THEN model.content_width ELSE content_height
      border_box == [a \in Axes |-> [origin |-> origin[a],
                                     size |-> add(add(add(add(width(a), model.padding[a][1]),
                                       model.padding[a][2]), model.border[a][1]), model.border[a][2])]]
      padding_box == [a \in Axes |-> inset(border_box[a], model.border[a])]
      content_box == [a \in Axes |-> inset(padding_box[a], model.padding[a])]
      kind == IF boxes[id].kind = "AnonymousBlock" THEN "AnonymousBlock" ELSE "Block"
  IN  Fragment(boxes[id].node, kind, id, border_box, padding_box, content_box, children, <<>>)

(* The end of finalize_top and layout_leaf: the fragment is appended and,  *)
(* if the box is relative, it and all below it move.                       *)
push_block(all, fragment, frag_start, cb_width, cb_height) ==
  LET style == boxes[fragment.of].style
  IN  IF style.position = "Relative"
      THEN shift_from(Append(all, fragment), frag_start, resolve_offset(style, cb_width, cb_height))
      ELSE Append(all, fragment)

\* Mutant of below_child: a block of no height leaves no trace in its parent.
below_child_visible(frame, origin, height, bottom, fragment_id) ==
  [frame EXCEPT
     !.running_content_bottom = add(saturating_sub(origin.y, frame.content_origin.y), height),
     !.prev_margin_bottom = Some(bottom),
     !.children = IF height = 0 THEN @ ELSE Append(@, fragment_id)]

\* The parent goes on below a child of some height.
below_child(frame, origin, height, bottom, fragment_id) ==
  [frame EXCEPT
     !.running_content_bottom = add(saturating_sub(origin.y, frame.content_origin.y), height),
     !.prev_margin_bottom = Some(bottom), !.children = Append(@, fragment_id)]

(* layout_leaf: a block with inline children, or none.                     *)
layout_leaf(id, origin, model, cb_width, cb_height, answer) ==
  LET style  == boxes[id].style
      failed == answer.failed
      inner  == IF failed THEN 0 ELSE answer.height
      height == IF model.known_height # None THEN model.known_height[1]
                ELSE clamp_au(inner, model.min_height, model.max_height)
      fragment == block_fragment(id, origin, model, height, IF failed THEN <<>> ELSE answer.added.ids)
  IN  [height |-> fragment.border_box.y.size,
       fragments |-> push_block(IF failed THEN fragments ELSE answer.added.fragments, fragment,
                                Len(fragments), cb_width, cb_height),
       error |-> IF failed THEN "FontNotBundled" ELSE error]

leaf_answers(id, origin, model) ==
  IF boxes[id].children = <<>>
  THEN {[failed |-> FALSE, added |-> [fragments |-> fragments, ids |-> <<>>], height |-> 0]}
  ELSE inline_layout(boxes[id].children, boxes[id].style, id,
                     content_origin_of(origin, model), model.content_width, fragments)

-----------------------------------------------------------------------------
LayoutInit == stack = <<>> /\ fragments = <<>> /\ memo = <<>> /\ page = 0 /\ error = "none"

\* The root's margins are used as they are, and nothing collapses through it.
RootModel == resolve_box_model(boxes[root].style, Viewport.x, Some(Viewport.y))
RootOrigin(model) == [x |-> model.margin_left, y |-> model.margins[1]]
RootFrame(model) == LayoutFrame(root, 0, RootOrigin(model), model, Some(Viewport.y), Viewport.x,
                                <<FALSE, FALSE>>, 0)
NoMemo == [side \in 1 .. 2 |-> [id \in DOMAIN boxes |-> None]]

\* Mutant of EnterRootBlock: only a root over blocks is laid out.
EnterRootContainer ==
  /\ root # 0 /\ memo = <<>>
  /\ memo' = NoMemo
  /\ stack' = IF is_block_container(root) THEN <<RootFrame(RootModel)>> ELSE stack
  /\ UNCHANGED <<fragments, page, error>>

EnterRootBlock ==
  /\ root # 0 /\ memo = <<>>
  /\ memo' = NoMemo
  /\ \E model \in {RootModel} :
       IF is_block_container(root)
       THEN stack' = <<RootFrame(model)>> /\ UNCHANGED <<fragments, page, error>>
       ELSE \E answer \in leaf_answers(root, RootOrigin(model), model) :
              LET leaf == layout_leaf(root, RootOrigin(model), model, Viewport.x,
                                      Some(Viewport.y), answer)
              IN  /\ fragments' = leaf.fragments /\ page' = Len(leaf.fragments)
                  /\ error' = leaf.error /\ stack' = stack

HasNextChild == stack # <<>> /\ Head(stack).next_child <= Len(boxes[Head(stack).id].children)
NextChild    == boxes[Head(stack).id].children[Head(stack).next_child]
advanced     == [Head(stack) EXCEPT !.next_child = @ + 1]

PushContainer ==
  /\ HasNextChild /\ is_block_container(NextChild)
  /\ \E at \in {place_child(NextChild, Head(stack))} :
       LET style == boxes[NextChild].style
       IN  /\ memo' = at.memo
           /\ stack' = <<LayoutFrame(NextChild, Len(fragments), at.origin, at.model, at.cb_height,
                                     at.cb_width, <<margin_passes_top(style, at.model),
                                                    margin_passes_bottom(style, at.model)>>, at.bottom),
                         advanced>> \o Tail(stack)
  /\ UNCHANGED <<fragments, page, error>>

ResolveLeaf ==
  /\ HasNextChild /\ ~ is_block_container(NextChild)
  /\ \E at \in {place_child(NextChild, Head(stack))} :
       \E answer \in leaf_answers(NextChild, at.origin, at.model) :
         LET leaf == layout_leaf(NextChild, at.origin, at.model, at.cb_width, at.cb_height, answer)
         IN  /\ memo' = at.memo
             /\ fragments' = leaf.fragments /\ error' = leaf.error
             /\ stack' = <<below_child(advanced, at.origin, leaf.height, at.bottom,
                                       Len(leaf.fragments))>> \o Tail(stack)
  /\ UNCHANGED page

\* The height of a block that is not given: down to its last child, and that child's
\* margin where it does not collapse with the block's own.
auto_height(top) ==
  clamp_au(add(top.running_content_bottom,
               IF top.bottom_collapse_eligible THEN 0 ELSE unwrap_or(top.prev_margin_bottom, 0)),
           top.model.min_height, top.model.max_height)

FinalizeTop ==
  /\ stack # <<>> /\ ~ HasNextChild
  /\ LET top      == Head(stack)
         height   == IF top.model.known_height # None THEN top.model.known_height[1]
                     ELSE auto_height(top)
         fragment == block_fragment(top.id, top.origin, top.model, height, top.children)
     IN  /\ fragments' = push_block(fragments, fragment, top.frag_start, top.cb_width, top.cb_height)
         /\ IF Tail(stack) = <<>> THEN stack' = <<>> /\ page' = Len(fragments')
            ELSE /\ stack' = [Tail(stack) EXCEPT ![1] =
                                below_child(@, top.origin, fragment.border_box.y.size,
                                            top.effective_margin_bottom, Len(fragments'))]
                 /\ page' = page
  /\ UNCHANGED <<memo, error>>

LayoutStep == EnterRootBlock \/ PushContainer \/ ResolveLeaf \/ FinalizeTop
===============================================================================
