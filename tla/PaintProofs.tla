----------------------------- MODULE PaintProofs -----------------------------
(***************************************************************************)
(* What painting relies on in its arithmetic and its clips, for every      *)
(* width of Au, every margin, every canvas and every list.                 *)
(***************************************************************************)
EXTENDS DisplayList, FiniteSetTheorems, TLAPS

(* The canvas with a margin on both sides is no wider than Au can say.     *)
(* MAX_DIMENSION and OFFSCREEN_MARGIN_PX leave it far below that.          *)
RoomForMargins(bounds) ==
  /\ bounds \in Rect /\ bounds.origin = 0 /\ bounds.size > 0
  /\ bounds.size + 2 * OFFSCREEN_MARGIN <= MaxAu

\* Lemma: the region around such a canvas is what plain addition gives.
LEMMA RegionIsExact ==
  ASSUME NEW bounds, RoomForMargins(bounds)
  PROVE  /\ inflate(bounds).min = - OFFSCREEN_MARGIN
         /\ inflate(bounds).max = bounds.size + OFFSCREEN_MARGIN
         /\ inflate(bounds).min \in Au /\ inflate(bounds).max \in Au
BY WidthAssumption, LimitsAssumption
   DEF RoomForMargins, inflate, saturating_add, saturating_sub, clamp, far_edge, Rect, Au

\* Lemma: the far edge of a rectangle is a value of Au.
LEMMA FarEdgeIsAu ==
  ASSUME NEW r \in Rect
  PROVE  r.origin \in Au /\ r.size \in Au /\ far_edge(r) \in Au
BY WidthAssumption DEF far_edge, saturating_add, clamp, Rect, Au

(* A clip clamped to the region passes validate's check whatever padding   *)
(* box it comes from, one at the limits of Au included (build.rs, "Either  *)
(* way the result always satisfies validate's bounds check").              *)
THEOREM ClampedClipPasses ==
  ASSUME NEW bounds, RoomForMargins(bounds), NEW r \in Rect
  PROVE  check_rect(clamp_rect(inflate(bounds), r), inflate(bounds)) = "Ok"
<1> DEFINE region == inflate(bounds)
           near   == clamp(r.origin, region.min, region.max)
           far    == Larger(clamp(far_edge(r), region.min, region.max), near)
<1>1. /\ region.min = - OFFSCREEN_MARGIN
      /\ region.max = bounds.size + OFFSCREEN_MARGIN
      /\ region.max - region.min <= MaxAu
      /\ region.min \in Int /\ region.max \in Int /\ region.min <= region.max
  BY RegionIsExact, LimitsAssumption, WidthAssumption DEF RoomForMargins, Rect, Au
<1>2. near \in Int /\ region.min <= near /\ near <= region.max
  BY <1>1, FarEdgeIsAu DEF clamp, Au
<1>3. far \in Int /\ near <= far /\ far <= region.max
  BY <1>1, <1>2, FarEdgeIsAu DEF clamp, Larger, Au
<1> HIDE DEF near, far
<1>4. clamp_rect(region, r) = [origin |-> near, size |-> far - near]
  BY <1>1, <1>2, <1>3, WidthAssumption
     DEF clamp_rect, Between, saturating_sub, clamp, near, far
<1>5. rect_is_valid([origin |-> near, size |-> far - near])
  BY <1>1, <1>2, <1>3, RegionIsExact, WidthAssumption DEF rect_is_valid, checked_add_fits, Au
<1>6. far_edge([origin |-> near, size |-> far - near]) = far
  BY <1>1, <1>2, <1>3, RegionIsExact, WidthAssumption DEF far_edge, saturating_add, clamp, Au
<1>7. intersects_rect(region, [origin |-> near, size |-> far - near])
  BY <1>1, <1>2, <1>3, <1>6, LimitsAssumption DEF intersects_rect, axis_overlaps, RoomForMargins
<1> QED
  BY <1>4, <1>5, <1>7 DEF check_rect

(* Two clips, one of them inside the canvas, intersect to a rectangle that *)
(* covers exactly what both cover: nothing is lost to saturation, and a    *)
(* clip stack of rectangles is as good as one of masks (shapes.rs,         *)
(* "intersecting axis-aligned rectangles is closed").                      *)
THEOREM IntersectionIsExact ==
  ASSUME NEW a \in Rect, NEW b \in Rect, a.origin >= 0, NEW p \in Int
  PROVE  /\ intersect(a, b) \in Rect
         /\ intersect(a, b).origin >= 0
         /\ Covers(intersect(a, b), p) <=> Covers(a, p) /\ Covers(b, p)
<1> DEFINE near == Larger(a.origin, b.origin)
           far  == Smaller(far_edge(a), far_edge(b))
<1>1. near \in Au /\ far \in Au /\ near >= 0
  BY FarEdgeIsAu DEF Larger, Smaller, Au
<1>2. far <= near => intersect(a, b) = Nowhere
  BY DEF intersect
<1>3. ~ (far <= near) => intersect(a, b) = [origin |-> near, size |-> far - near]
  BY <1>1, WidthAssumption DEF intersect, Between, saturating_sub, clamp, Au
<1>4. Covers(a, p) /\ Covers(b, p) <=> near <= p /\ p < far
  BY FarEdgeIsAu DEF Covers, Larger, Smaller, Au
<1> HIDE DEF near, far
<1>5. CASE far <= near
  BY <1>1, <1>2, <1>4, <1>5, WidthAssumption
     DEF Nowhere, Covers, far_edge, saturating_add, clamp, Rect, Au
<1>6. CASE ~ (far <= near)
  <2>1. [origin |-> near, size |-> far - near] \in Rect
    BY <1>1, <1>6, WidthAssumption DEF Rect, Au
  <2>2. far_edge([origin |-> near, size |-> far - near]) = far
    BY <1>1, WidthAssumption DEF far_edge, saturating_add, clamp, Au
  <2> QED
    BY <1>1, <1>3, <1>4, <1>6, <2>1, <2>2 DEF Covers, Au
<1> QED
  BY <1>5, <1>6
-----------------------------------------------------------------------------
(***************************************************************************)
(* How the depth and the open clips change from one item to the next.      *)
(***************************************************************************)

\* The items before i of a kind.
Before(items, i, kind) == {j \in 1 .. i - 1 : items[j].item = kind}

LEMMA BeforeNext ==
  ASSUME NEW items, NEW i \in Nat \ {0}, NEW kind
  PROVE  /\ IsFiniteSet(Before(items, i, kind))
         /\ Cardinality(Before(items, i, kind)) \in Nat
         /\ Cardinality(Before(items, i + 1, kind)) =
              IF items[i].item = kind THEN Cardinality(Before(items, i, kind)) + 1
                                      ELSE Cardinality(Before(items, i, kind))
<1>1. IsFiniteSet(1 .. i - 1)
  BY FS_Interval
<1>2. IsFiniteSet(Before(items, i, kind))
  <2>1. Before(items, i, kind) \in SUBSET (1 .. i - 1)
    BY DEF Before
  <2> QED BY <1>1, <2>1, FS_Subset
<1>3. Cardinality(Before(items, i, kind)) \in Nat
  BY <1>2, FS_CardinalityType
<1>4. CASE items[i].item = kind
  <2>1. Before(items, i + 1, kind) = Before(items, i, kind) \cup {i}
    BY <1>4 DEF Before
  <2>2. i \notin Before(items, i, kind)
    BY DEF Before
  <2> QED BY <1>2, <1>3, <1>4, <2>1, <2>2, FS_AddElement
<1>5. CASE items[i].item # kind
  <2>1. Before(items, i + 1, kind) = Before(items, i, kind)
    BY <1>5 DEF Before
  <2> QED BY <1>2, <1>3, <1>5, <2>1
<1> QED BY <1>4, <1>5

\* No clip is open before the first item; a push opens one, a pop closes one.
LEMMA DepthStep ==
  ASSUME NEW items, NEW i \in Nat \ {0}
  PROVE  /\ depth(items, i) \in Int
         /\ depth(items, 1) = 0
         /\ items[i].item = "PushClip" => depth(items, i + 1) = depth(items, i) + 1
         /\ items[i].item = "PopClip"  => depth(items, i + 1) = depth(items, i) - 1
         /\ items[i].item \notin {"PushClip", "PopClip"} => depth(items, i + 1) = depth(items, i)
<1>1. \A k : depth(items, k) = Cardinality(Before(items, k, "PushClip"))
                                 - Cardinality(Before(items, k, "PopClip"))
  BY DEF depth, Before
<1>2. depth(items, 1) = 0
  <2>1. \A kind : Before(items, 1, kind) = {}
    BY DEF Before
  <2> QED BY <1>1, <2>1, FS_EmptySet
<1>3. /\ Cardinality(Before(items, i, "PushClip")) \in Nat
      /\ Cardinality(Before(items, i, "PopClip")) \in Nat
      /\ Cardinality(Before(items, i + 1, "PushClip")) =
           IF items[i].item = "PushClip" THEN Cardinality(Before(items, i, "PushClip")) + 1
                                         ELSE Cardinality(Before(items, i, "PushClip"))
      /\ Cardinality(Before(items, i + 1, "PopClip")) =
           IF items[i].item = "PopClip" THEN Cardinality(Before(items, i, "PopClip")) + 1
                                        ELSE Cardinality(Before(items, i, "PopClip"))
  BY BeforeNext
<1> QED BY <1>1, <1>2, <1>3

\* An open clip was pushed before, at a smaller depth than there is now.
LEMMA OpenIsBelow ==
  ASSUME NEW items, NEW i \in Nat \ {0}, NEW j \in OpenAt(items, i)
  PROVE  /\ j \in 1 .. i - 1 /\ items[j].item = "PushClip"
         /\ depth(items, j) \in Int /\ depth(items, j) < depth(items, i)
<1>1. j \in 1 .. i - 1 /\ items[j].item = "PushClip" /\ i \in j + 1 .. i
  BY DEF OpenAt
<1> QED BY <1>1, DepthStep DEF OpenAt

\* A push adds its clip to those open, a pop takes the deepest ones away, and
\* no other item changes them.
LEMMA OpenStep ==
  ASSUME NEW items, NEW i \in Nat \ {0}
  PROVE  /\ items[i].item = "PushClip" => OpenAt(items, i + 1) = OpenAt(items, i) \cup {i}
         /\ items[i].item = "PopClip" =>
              OpenAt(items, i + 1) =
                {j \in OpenAt(items, i) : depth(items, j) < depth(items, i) - 1}
         /\ items[i].item \notin {"PushClip", "PopClip"} =>
              OpenAt(items, i + 1) = OpenAt(items, i)
<1> DEFINE next == depth(items, i + 1)
<1>1. /\ items[i].item = "PushClip" => next = depth(items, i) + 1
      /\ items[i].item = "PopClip"  => next = depth(items, i) - 1
      /\ items[i].item \notin {"PushClip", "PopClip"} => next = depth(items, i)
      /\ depth(items, i) \in Int
  BY DepthStep
<1>2. \A j \in 1 .. i - 1 :
        j \in OpenAt(items, i + 1) <=> j \in OpenAt(items, i) /\ next > depth(items, j)
  <2> TAKE j \in 1 .. i - 1
  <2>1. j + 1 .. i + 1 = (j + 1 .. i) \cup {i + 1}
    OBVIOUS
  <2> QED BY <2>1 DEF OpenAt
<1>3. i \in OpenAt(items, i + 1) <=> items[i].item = "PushClip" /\ next > depth(items, i)
  <2>1. i \in 1 .. (i + 1) - 1 /\ \A k \in i + 1 .. i + 1 : k = i + 1
    OBVIOUS
  <2>2. i + 1 \in i + 1 .. i + 1
    OBVIOUS
  <2> QED BY <2>1, <2>2 DEF OpenAt
<1>4. OpenAt(items, i + 1) \subseteq 1 .. i /\ OpenAt(items, i) \subseteq 1 .. i - 1
  BY DEF OpenAt
<1>5. \A j \in OpenAt(items, i) : depth(items, j) \in Int /\ depth(items, j) < depth(items, i)
  BY OpenIsBelow
<1> HIDE DEF next
<1>6. CASE items[i].item = "PushClip"
  BY <1>1, <1>2, <1>3, <1>4, <1>5, <1>6
<1>7. CASE items[i].item = "PopClip"
  BY <1>1, <1>2, <1>3, <1>4, <1>5, <1>7
<1>8. CASE items[i].item \notin {"PushClip", "PopClip"}
  BY <1>1, <1>2, <1>3, <1>4, <1>5, <1>8
<1> QED BY <1>6, <1>7, <1>8

\* A nonempty set of numbers has a least one.
LEMMA LeastNatural ==
  ASSUME NEW S \in SUBSET Nat, S # {}
  PROVE  \E i \in S : \A j \in S : i <= j
<1>1. \A i, j \in Nat : <<j, i>> \in OpToRel(<, Nat) <=> j < i
  BY DEF OpToRel
<1>2. PICK R : IsWellFoundedOn(R, Nat) /\ \A i, j \in Nat : <<j, i>> \in R <=> j < i
  BY <1>1, NatLessThanWellFounded, Zenon
<1>3. PICK i \in S : \A j \in S : ~ (<<j, i>> \in R)
  BY <1>2, WFMin
<1>4. \A j \in S : ~ (j < i)
  BY <1>2, <1>3, Zenon
<1> QED BY <1>4

\* A list that validates has nothing wrong with any item, and balances.
LEMMA ValidItems ==
  ASSUME NEW items, NEW bounds, validate(items, bounds) = "Ok",
         DOMAIN items \in SUBSET Nat
  PROVE  /\ \A i \in DOMAIN items : check_item(items, i, inflate(bounds)) = "Ok"
         /\ depth(items, Len(items) + 1) = 0
<1> DEFINE Wrong == {i \in DOMAIN items : check_item(items, i, inflate(bounds)) # "Ok"}
           first == CHOOSE i \in Wrong : \A j \in Wrong : i <= j
<1>1. ASSUME Wrong # {} PROVE FALSE
  <2>1. \E i \in Wrong : \A j \in Wrong : i <= j
    BY <1>1, LeastNatural
  <2>2. first \in Wrong
    BY <2>1
  <2>3. validate(items, bounds) \in
          {"InvalidBounds", "TooManyItems", check_item(items, first, inflate(bounds))}
    BY <1>1 DEF validate
  <2> QED BY <2>2, <2>3
<1>2. depth(items, Len(items) + 1) = 0
  BY <1>1 DEF validate
<1> QED BY <1>1, <1>2
===============================================================================
