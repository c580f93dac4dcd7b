------------------------------ MODULE PaintBuild ------------------------------
(***************************************************************************)
(* build of crates/paint: the walk that turns a fragment tree into a       *)
(* display list, frame by frame.  The tree is any member of Trees, well    *)
(* formed or not: a child may be listed twice, be its own ancestor, or     *)
(* name no fragment, and the list must still be one the rasteriser takes.  *)
(***************************************************************************)
EXTENDS DisplayList, SequencesExt

CONSTANTS
  Trees,        \* a sequence of sets of FragmentTrees
  ViewportSize  \* FragmentTree::viewport, in app units

(* A fragment: its kind, the element it belongs to, its border box, border *)
(* widths and which sides are solid, whether its background is opaque and  *)
(* its overflow hidden, its glyph runs and its children.                   *)
Fragment ==
  [kind : {"Block", "Line", "Text"}, element : {"html", "body", "other"},
   border_box : Rect, border : [1 .. 2 -> Au], solid : [1 .. 2 -> BOOLEAN],
   background : BOOLEAN, hidden : BOOLEAN, runs : Seq(GlyphRun), children : Seq(Nat)]
FragmentTree == [root : Nat, fragments : Seq(Fragment)]

ASSUME TreesAssumption ==
  /\ ViewportSize \in Au
  /\ \A kind \in DOMAIN Trees : Trees[kind] \subseteq FragmentTree

VARIABLES
  tree,      \* [root, fragments], never changed; ids are positions in fragments
  canvas,    \* the fragment whose background the canvas has, or 0
  stack,     \* frames still to do, the top first
  remaining, \* fragment frames the walk may still pop
  items,     \* DisplayList::items
  built      \* build has returned

buildVars == <<tree, canvas, stack, remaining, items, built>>

Bounds == [origin |-> 0, size |-> ViewportSize]
Region == inflate(Bounds)

FragmentFrame(id) == [frame |-> "Fragment", id |-> id]
PopClipFrame      == [frame |-> "PopClip"]

\* FragmentTree::get answers Some.
Resolves(t, id) == id \in DOMAIN t.fragments

-----------------------------------------------------------------------------
(* The walk of find_element_fragment, which pops at most as many ids as    *)
(* there are fragments: the ids it pops, and what is left on its stack.    *)
pop_one(t, s) ==
  IF s.stack = <<>> THEN s
  ELSE [seen  |-> Append(s.seen, Head(s.stack)),
        stack |-> (IF Resolves(t, Head(s.stack)) THEN t.fragments[Head(s.stack)].children
                                                 ELSE <<>>) \o Tail(s.stack)]
survey(t) ==
  LET after[k \in 0 .. Len(t.fragments)] ==
        IF k = 0 THEN [seen |-> <<>>, stack |-> <<t.root>>] ELSE pop_one(t, after[k - 1])
  IN  after[Len(t.fragments)]

\* The first fragment of the element named, or 0.
find_element_fragment(t, local) ==
  LET seen == survey(t).seen
      At == {i \in 1 .. Len(t.fragments) :
               i \in DOMAIN seen /\ Resolves(t, seen[i]) /\ t.fragments[seen[i]].element = local}
  IN  IF At = {} THEN 0 ELSE seen[Min(At)]

Paints(t, id) == id # 0 /\ t.fragments[id].background

(* The fragment whose background goes to the canvas and is not painted on  *)
(* its own box, or 0: html before body.                                    *)
canvas_background(t) ==
  LET html == find_element_fragment(t, "html")
      body == find_element_fragment(t, "body")
  IN  IF Paints(t, html) THEN html ELSE IF Paints(t, body) THEN body ELSE 0

canvas_items(source) ==
  IF source = 0 \/ is_empty(Bounds) THEN <<>> ELSE <<RectItem(source, Bounds)>>

-----------------------------------------------------------------------------
\* Each side's width where it is solid, nothing elsewhere.
solid_border_widths(f) ==
  [side \in 1 .. 2 |-> IF f.solid[side] THEN Larger(f.border[side], 0) ELSE 0]

\* Mutant of clip_rect: the padding box as it is.
clip_rect_unclamped(f) == inset(f.border_box, f.border)

\* The clip of a fragment: its padding box, never dropped, at worst empty.
clip_rect(f) == clamp_rect(Region, inset(f.border_box, f.border))

paint_block(id, f) ==
  (IF id # canvas /\ f.background /\ ~ is_empty(f.border_box)
   THEN <<RectItem(id, f.border_box)>> ELSE <<>>)
  \o (IF solid_border_widths(f) # <<0, 0>>
      THEN <<BorderItem(id, f.border_box, solid_border_widths(f))>> ELSE <<>>)

\* The k-th of a set of positions, the least first.
nth(S, k) == CHOOSE i \in S : Cardinality({j \in S : j < i}) = k - 1

paint_runs(id, f) ==
  LET Shown == {i \in DOMAIN f.runs : /\ f.runs[i].glyphs # <<>>
                                      /\ contains_point(Region, f.runs[i].origin)}
  IN  [k \in 1 .. Cardinality(Shown) |-> TextItem(id, f.runs[nth(Shown, k)])]

paint_fragment(id, f) ==
  CASE f.kind = "Block" /\ intersects_rect(Region, f.border_box) -> paint_block(id, f)
    [] f.kind = "Text"                                           -> paint_runs(id, f)
    [] OTHER                                                     -> <<>>

BuildInit ==
  /\ \E kind \in DOMAIN Trees : tree \in Trees[kind]
  /\ canvas = canvas_background(tree)
  /\ items = canvas_items(canvas)
  /\ stack = <<FragmentFrame(tree.root)>>
  /\ remaining = Len(tree.fragments)
  /\ built = FALSE

NextFrame(kind) == ~ built /\ stack # <<>> /\ Head(stack).frame = kind

\* Mutant of pending_frames: the clip is to close before the children.
pending_frames_swapped(f) ==
  (IF f.hidden THEN <<PopClipFrame>> ELSE <<>>)
    \o [i \in DOMAIN f.children |-> FragmentFrame(f.children[i])]

\* What is pushed for a fragment: its children, under them the end of its clip.
pending_frames(f) ==
  [i \in DOMAIN f.children |-> FragmentFrame(f.children[i])]
    \o (IF f.hidden THEN <<PopClipFrame>> ELSE <<>>)

\* What is emitted for a fragment: what it paints, then the start of its clip.
fragment_items(id, f) ==
  paint_fragment(id, f) \o (IF f.hidden THEN <<PushClip(id, clip_rect(f))>> ELSE <<>>)

VisitFragment ==
  /\ NextFrame("Fragment") /\ remaining > 0
  /\ Resolves(tree, Head(stack).id)
  /\ LET id == Head(stack).id
     IN  /\ items' = items \o fragment_items(id, tree.fragments[id])
         /\ stack' = pending_frames(tree.fragments[id]) \o Tail(stack)
  /\ remaining' = remaining - 1
  /\ UNCHANGED <<tree, canvas, built>>

\* Mutant of SkipDangling: the frame stays on the stack.
SkipDangling_peeking ==
  /\ NextFrame("Fragment") /\ remaining > 0
  /\ ~ Resolves(tree, Head(stack).id)
  /\ UNCHANGED buildVars

SkipDangling ==
  /\ NextFrame("Fragment") /\ remaining > 0
  /\ ~ Resolves(tree, Head(stack).id)
  /\ stack' = Tail(stack)
  /\ remaining' = remaining - 1
  /\ UNCHANGED <<tree, canvas, items, built>>

CloseClip ==
  /\ NextFrame("PopClip")
  /\ items' = Append(items, PopClip)
  /\ stack' = Tail(stack)
  /\ UNCHANGED <<tree, canvas, remaining, built>>

\* Mutant of drain_pending_pop_clips: the open clips are left open.
drain_nothing(frames) == SelectSeq(<<>>, LAMBDA f : f \in ToSet(frames))

drain_pending_pop_clips(frames) ==
  LET Pending == {i \in DOMAIN frames : frames[i].frame = "PopClip"}
  IN  [k \in 1 .. Cardinality(Pending) |-> PopClip]

(* More fragment frames popped than there are fragments: the walk stops    *)
(* and closes the clips that are open.                                     *)
StopWalk ==
  /\ NextFrame("Fragment") /\ remaining = 0
  /\ items' = items \o drain_pending_pop_clips(stack)
  /\ stack' = <<>>
  /\ built' = TRUE
  /\ UNCHANGED <<tree, canvas, remaining>>

EndWalk ==
  /\ ~ built /\ stack = <<>>
  /\ built' = TRUE
  /\ UNCHANGED <<tree, canvas, stack, remaining, items>>

Walk == VisitFragment \/ SkipDangling \/ CloseClip \/ StopWalk \/ EndWalk

\* One call of build; a loop that was entered goes on.
BuildSpec == BuildInit /\ [][Walk]_buildVars /\ WF_buildVars(Walk)

-----------------------------------------------------------------------------
(* At every frame the clips the list has open are those the stack will     *)
(* close, and no pop comes before its push: so the list balances whatever  *)
(* the tree is and wherever the walk stops ("always balances").            *)
ClipsBalance ==
  /\ depth(items, Len(items) + 1) =
       Cardinality({i \in DOMAIN stack : stack[i].frame = "PopClip"})
  /\ \A i \in DOMAIN items : items[i].item = "PopClip" => depth(items, i) > 0
  /\ built => depth(items, Len(items) + 1) = 0

(* build returns for every tree, one that contains itself included.        *)
BuildReturns == <>built

(* "always passes validate's clip check" (DisplayItem::PopClip).           *)
ClipCheckPasses ==
  built => validate(items, Bounds) \notin {"PopWithoutPush", "TooDeepClip", "UnbalancedClip"}

\* The fragments in the subtree of id: the least set closed under children.
ChildClosed(t, S) == \A n \in S : ToSet(t.fragments[n].children) \subseteq S
Subtree(t, id) ==
  {n \in DOMAIN t.fragments :
     \A S \in SUBSET DOMAIN t.fragments : id \in S /\ ChildClosed(t, S) => n \in S}

\* A tree as layout builds it: every fragment is reached from the root, and
\* every other one than the root is listed as a child in one place.
IsLaidOut(t) ==
  /\ Resolves(t, t.root)
  /\ \A p, q \in DOMAIN t.fragments :
       \A i \in DOMAIN t.fragments[p].children, j \in DOMAIN t.fragments[q].children :
         LET n == t.fragments[p].children[i]
         IN  /\ Resolves(t, n) /\ n # t.root
             /\ n = t.fragments[q].children[j] => p = q /\ i = j
  /\ Subtree(t, t.root) = DOMAIN t.fragments

HiddenAncestors(t, id) ==
  {a \in DOMAIN t.fragments \ {id} : t.fragments[a].hidden /\ id \in Subtree(t, a)}

(* A fragment is drawn under the clips of exactly its ancestors with       *)
(* hidden overflow, and its own clip under those of its ancestors: a clip  *)
(* closes after the last descendant and before the next sibling.           *)
ClipScope ==
  built /\ IsLaidOut(tree) =>
    \A i \in Len(canvas_items(canvas)) + 1 .. Len(items) :
      items[i].item # "PopClip" =>
        {items[j].of : j \in OpenAt(items, i)} = HiddenAncestors(tree, items[i].of)
===============================================================================
