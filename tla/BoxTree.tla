------------------------------- MODULE BoxTree --------------------------------
(***************************************************************************)
(* box_tree.rs of crates/layout: the walk with an explicit stack that      *)
(* turns a styled document into boxes.  One step classifies one DOM child  *)
(* or finishes one box: blockifies it, wraps its runs of inline children   *)
(* in anonymous blocks, or drops such a run.                               *)
(***************************************************************************)
EXTENDS LayoutStyle, Whitespace, FiniteSets, TLC

CONSTANTS Documents  \* a sequence of sets of styled documents

(* A styled document: by node (the first is the document node) its         *)
(* children, its kind, the local name of an element ("br" or another), the *)
(* characters of a text, and the computed values or NoStyle; and whether   *)
(* the fonts it needs are bundled.                                         *)
NoStyle == [display |-> "unstyled"]

VARIABLES
  doc,     \* the document, never changed
  frames,  \* the walk's stack of unfinished boxes, the top first
  boxes,   \* BoxTree::boxes; a BoxId is a position
  root     \* BoxTree::root once the walk has returned, 0 before

boxVars == <<doc, frames, boxes, root>>

Frame(node, style) ==
  [node |-> node, style |-> style,
   kind |-> IF style.display = "Inline" THEN "Inline" ELSE "Block",
   todo |-> doc.children[node], built |-> <<>>]

Box(node, kind, style, children) ==
  [node |-> node, kind |-> kind, style |-> style, children |-> children]
NoNode == 0
EmptyPage == Box(NoNode, "AnonymousBlock", initial, <<>>)

\* The document's first element child, or 0.
root_element(d) ==
  LET Elements == {i \in DOMAIN d.children[1] : d.kind[d.children[1][i]] = "Element"}
  IN  IF Elements = {} THEN 0 ELSE d.children[1][nth(Elements, 1)]

computed_or_initial(d, node) ==
  IF d.computed[node] = NoStyle THEN initial ELSE adapt(d.computed[node])

is_block_level(kind) == kind \in {"Block", "AnonymousBlock"}
block_child(bs, id)  == is_block_level(bs[id].kind)

-----------------------------------------------------------------------------
(* classify_child: what one DOM child becomes.                             *)
Skip == [is |-> "Skip"]
Leaf(kind, style) == [is |-> "Leaf", kind |-> kind, style |-> style]
Container(style)  == [is |-> "Container", style |-> style]

classify_element(d, node) ==
  IF d.computed[node] = NoStyle \/ adapt(d.computed[node]).display = "None" THEN Skip
  ELSE IF d.local[node] = "br" THEN Leaf("LineBreak", adapt(d.computed[node]))
  ELSE Container(adapt(d.computed[node]))

classify_child(d, node, parent_style) ==
  CASE d.kind[node] = "Text"    -> Leaf("InlineText", inherited_text_style(parent_style))
    [] d.kind[node] = "Element" -> classify_element(d, node)
    [] OTHER                    -> Skip

-----------------------------------------------------------------------------
\* Mutant of finalize_kind: an inline box stays one, whatever is in it.
finalize_kind_as_styled(frame, bs) == frame

(* finalize_kind: an inline box with a block-level child is a block.       *)
finalize_kind(frame, bs) ==
  IF frame.kind = "Inline" /\ \E i \in DOMAIN frame.built : block_child(bs, frame.built[i])
  THEN [frame EXCEPT !.kind = "Block", !.style.display = "Block"] ELSE frame

\* Mutant of run_is_collapsible_whitespace: pre text counts as well.
run_is_blank(d, bs, run) ==
  \A i \in DOMAIN run : /\ bs[run[i]].kind = "InlineText"
                        /\ \A c \in ToSet(d.text[bs[run[i]].node]) : is_collapsible(c)

\* A run that generates no box: text only, and nothing in it that is not collapsed.
run_is_collapsible_whitespace(d, bs, run) ==
  \A i \in DOMAIN run : /\ bs[run[i]].kind = "InlineText"
                        /\ bs[run[i]].style.text.white_space = "Normal"
                        /\ \A c \in ToSet(d.text[bs[run[i]].node]) : is_collapsible(c)

\* The maximal run of inline-level boxes of built that starts at i.
run_from(bs, built, i) ==
  LET ends == {j \in i .. Len(built) :
                 \A k \in i .. j : ~ block_child(bs, built[k])}
  IN  SubSeq(built, i, CHOOSE j \in ends : \A k \in ends : k <= j)

(* wrap_inline_runs: where block-level and inline-level children meet,     *)
(* each run of inline ones goes into an anonymous block of its own.        *)
wrap_inline_runs(d, bs, built, style) ==
  LET Blocks == {i \in DOMAIN built : block_child(bs, built[i])}
      Inlines == DOMAIN built \ Blocks
      Wrapped == {i \in Inlines : /\ i = 1 \/ i - 1 \in Blocks
                                  /\ ~ run_is_collapsible_whitespace(d, bs, run_from(bs, built, i))}
      Kept    == Blocks \cup Wrapped
      new_id(i) == Len(bs) + Cardinality({j \in Wrapped : j < i}) + 1
  IN  IF Blocks = {} \/ Inlines = {} THEN [boxes |-> bs, children |-> built]
      ELSE [boxes |-> bs \o [k \in 1 .. Cardinality(Wrapped) |->
                               Box(NoNode, "AnonymousBlock", anonymous_block(style),
                                   run_from(bs, built, nth(Wrapped, k)))],
            children |-> [k \in 1 .. Cardinality(Kept) |->
                            LET i == nth(Kept, k)
                            IN  IF i \in Blocks THEN built[i] ELSE new_id(i)]]

-----------------------------------------------------------------------------
BoxInit ==
  /\ \E family \in DOMAIN Documents : doc \in Documents[family]
  /\ frames = <<>> /\ boxes = <<>> /\ root = 0

Unstarted == root = 0 /\ boxes = <<>> /\ frames = <<>>
NoBoxes == \/ root_element(doc) = 0
           \/ /\ root_element(doc) # 0
              /\ computed_or_initial(doc, root_element(doc)).display = "None"

\* No root element, or one that is not displayed: one anonymous block and nothing in it.
BuildNothing ==
  /\ Unstarted /\ NoBoxes
  /\ boxes' = <<EmptyPage>> /\ root' = 1
  /\ UNCHANGED <<doc, frames>>

EnterRoot ==
  /\ Unstarted /\ ~ NoBoxes
  /\ frames' = <<Frame(root_element(doc), computed_or_initial(doc, root_element(doc)))>>
  /\ UNCHANGED <<doc, boxes, root>>

add_built(stack, id) == [stack EXCEPT ![1].built = Append(@, id)]

VisitChild ==
  /\ frames # <<>> /\ Head(frames).todo # <<>>
  /\ LET node  == Head(Head(frames).todo)
         rest  == [frames EXCEPT ![1].todo = Tail(@)]
         child == classify_child(doc, node, Head(frames).style)
     IN  CASE child.is = "Skip" -> frames' = rest /\ boxes' = boxes
           [] child.is = "Leaf" -> /\ boxes' = Append(boxes, Box(node, child.kind, child.style, <<>>))
                                   /\ frames' = add_built(rest, Len(boxes'))
           [] child.is = "Container" -> /\ frames' = <<Frame(node, child.style)>> \o rest
                                        /\ boxes' = boxes
  /\ UNCHANGED <<doc, root>>

FinishBox ==
  /\ frames # <<>> /\ Head(frames).todo = <<>>
  /\ LET frame == finalize_kind(Head(frames), boxes)
         wrap  == wrap_inline_runs(doc, boxes, frame.built, frame.style)
         id    == Len(wrap.boxes) + 1
     IN  /\ boxes' = Append(wrap.boxes, Box(frame.node, frame.kind, frame.style, wrap.children))
         /\ IF Tail(frames) = <<>> THEN frames' = <<>> /\ root' = id
            ELSE frames' = add_built(Tail(frames), id) /\ root' = root
  /\ UNCHANGED doc

BuildStep == BuildNothing \/ EnterRoot \/ VisitChild \/ FinishBox

-----------------------------------------------------------------------------
(* At every step each finished box has exactly one parent, a box or a      *)
(* frame, but for the root and dropped blank text, and no box mixes        *)
(* block-level and inline-level children: an inline box has only           *)
(* inline-level ones, and kind and style.display say the same.  Block and  *)
(* inline layout each look at the first child alone to decide which of     *)
(* them is to run.                                                         *)
Owners(id) ==
  Cardinality({b \in DOMAIN boxes : id \in ToSet(boxes[b].children)})
    + Cardinality({f \in DOMAIN frames : id \in ToSet(frames[f].built)})
BoxesWellFormed ==
  /\ \A id \in DOMAIN boxes :
       /\ \/ Owners(id) = 1 /\ id # root
          \/ Owners(id) = 0 /\ (id = root \/ run_is_collapsible_whitespace(doc, boxes, <<id>>))
       /\ \/ is_block_level(boxes[id].kind) = (boxes[id].style.display = "Block")
          \/ boxes[id] = EmptyPage \/ boxes[id].kind = "LineBreak"
       /\ LET Kinds == {is_block_level(boxes[c].kind) : c \in ToSet(boxes[id].children)}
          IN  Cardinality(Kinds) <= 1 /\ (boxes[id].kind = "Inline" => TRUE \notin Kinds)
       /\ boxes[id].kind \in {"InlineText", "LineBreak"} => boxes[id].children = <<>>
===============================================================================
