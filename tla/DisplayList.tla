------------------------------ MODULE DisplayList ------------------------------
(***************************************************************************)
(* The items of a display list and validate, the check the rasteriser runs *)
(* on one before it draws (crates/paint: list.rs, validate.rs).            *)
(*                                                                         *)
(* Every drawing item names in `of' the fragment it was made from.  The   *)
(* code has no such field; it stands for the colour.                       *)
(***************************************************************************)
EXTENDS Geometry, Sequences, FiniteSets

CONSTANTS
  MAX_ITEMS, MAX_GLYPHS_PER_RUN, MAX_CLIP_DEPTH,
  OFFSCREEN_MARGIN  \* OFFSCREEN_MARGIN_PX in app units

ASSUME LimitsAssumption ==
  /\ MAX_ITEMS \in Nat /\ MAX_GLYPHS_PER_RUN \in Nat /\ MAX_CLIP_DEPTH \in Nat
  /\ OFFSCREEN_MARGIN \in Nat

RectItem(of, rect)           == [item |-> "Rect", of |-> of, rect |-> rect]
BorderItem(of, rect, widths) == [item |-> "Border", of |-> of, rect |-> rect, widths |-> widths]
TextItem(of, run)            == [item |-> "Text", of |-> of, run |-> run]
PushClip(of, rect)           == [item |-> "PushClip", of |-> of, rect |-> rect]
PopClip                      == [item |-> "PopClip"]

\* What Rust's types say of a run and of an item; validate takes any of them.
GlyphRun == [font : STRING, size : Int, origin : Au, opaque : BOOLEAN,
             glyphs : Seq([id : STRING, x : Au])]
DisplayItem ==
  [item : {"Rect"}, of : Nat, rect : Rect]
    \cup [item : {"Border"}, of : Nat, rect : Rect, widths : [1 .. 2 -> Au]]
    \cup [item : {"Text"}, of : Nat, run : GlyphRun]
    \cup [item : {"PushClip"}, of : Nat, rect : Rect]
    \cup {PopClip}

-----------------------------------------------------------------------------
\* The bounds widened by the margin (inflate; InflatedViewport::new in build.rs).
inflate(bounds) ==
  [min |-> saturating_sub(bounds.origin, OFFSCREEN_MARGIN),
   max |-> saturating_add(far_edge(bounds), OFFSCREEN_MARGIN)]

contains_point(region, p) == region.min <= p /\ p <= region.max

\* Mutant of axis_overlaps: the interval must lie inside.
axis_contains(near, far, min, max) == min <= near /\ far <= max

\* An interval of no length is compared inclusively, any other half-open.
axis_overlaps(near, far, min, max) ==
  IF near = far THEN min <= near /\ near <= max
                ELSE far > min /\ near < max

intersects_rect(region, r) == axis_overlaps(r.origin, far_edge(r), region.min, region.max)

(* InflatedViewport::clamp: the part of a rectangle inside a region, or an *)
(* empty rectangle on the region's edge.                                   *)
clamp_rect(region, r) ==
  LET near == clamp(r.origin, region.min, region.max)
      far  == Larger(clamp(far_edge(r), region.min, region.max), near)
  IN  Between(near, far)

bounds_is_valid(r) == r.size > 0 /\ checked_add_fits(r.origin, r.size)
rect_is_valid(r)   == r.size >= 0 /\ checked_add_fits(r.origin, r.size)

border_widths_valid(r, widths) == \A side \in 1 .. 2 : widths[side] \in 0 .. r.size

check_rect(r, region) ==
  IF ~ rect_is_valid(r) THEN "InvalidRect"
  ELSE IF ~ intersects_rect(region, r) THEN "OutOfBounds"
  ELSE "Ok"

check_border(r, widths, region) ==
  IF check_rect(r, region) = "Ok" /\ ~ border_widths_valid(r, widths)
  THEN "InvalidRect" ELSE check_rect(r, region)

check_text_run(run, region) ==
  IF Len(run.glyphs) > MAX_GLYPHS_PER_RUN THEN "TooManyGlyphs"
  ELSE IF ~ contains_point(region, run.origin) THEN "OutOfBounds"
  ELSE IF \E i \in DOMAIN run.glyphs : ~ checked_add_fits(run.origin, run.glyphs[i].x)
       THEN "InvalidRect"
  ELSE "Ok"

\* How many clips are open before item i of a list.
depth(items, i) == Cardinality({j \in 1 .. i - 1 : items[j].item = "PushClip"})
                     - Cardinality({j \in 1 .. i - 1 : items[j].item = "PopClip"})

\* Those clips' pushes: since each, nothing came back to the depth it had.
OpenAt(items, i) ==
  {j \in 1 .. i - 1 : /\ items[j].item = "PushClip"
                      /\ \A k \in j + 1 .. i : depth(items, k) > depth(items, j)}

check_push(items, i, region) ==
  IF check_rect(items[i].rect, region) = "Ok" /\ depth(items, i) + 1 > MAX_CLIP_DEPTH
  THEN "TooDeepClip" ELSE check_rect(items[i].rect, region)

\* Mutant of check_pop: a pop is never refused.
check_pop_never(items, i) == IF i > 0 THEN "Ok" ELSE "PopWithoutPush"

check_pop(items, i) == IF depth(items, i) = 0 THEN "PopWithoutPush" ELSE "Ok"

\* What validate finds wrong with item i when the items before it are right.
check_item(items, i, region) ==
  CASE items[i].item = "Rect"     -> check_rect(items[i].rect, region)
    [] items[i].item = "Border"   -> check_border(items[i].rect, items[i].widths, region)
    [] items[i].item = "Text"     -> check_text_run(items[i].run, region)
    [] items[i].item = "PushClip" -> check_push(items, i, region)
    [] items[i].item = "PopClip"  -> check_pop(items, i)

(* validate: the first thing that is wrong, or Ok.                         *)
validate(items, bounds) ==
  LET region == inflate(bounds)
      Wrong  == {i \in DOMAIN items : check_item(items, i, region) # "Ok"}
  IN  IF ~ bounds_is_valid(bounds) THEN "InvalidBounds"
      ELSE IF Len(items) > MAX_ITEMS THEN "TooManyItems"
      ELSE IF Wrong # {}
           THEN check_item(items, CHOOSE i \in Wrong : \A j \in Wrong : i <= j, region)
      ELSE IF depth(items, Len(items) + 1) # 0 THEN "UnbalancedClip"
      ELSE "Ok"
===============================================================================
