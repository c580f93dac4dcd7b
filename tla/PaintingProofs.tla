---------------------------- MODULE PaintingProofs ----------------------------
(***************************************************************************)
(* What the builder promises of its lists, for every fragment tree, the    *)
(* malformed ones included, every viewport and every width of Au.          *)
(***************************************************************************)
EXTENDS Painting, PaintProofs, SequenceTheorems

\* The positions of a sequence that hold a member of S.
Hits(s, S) == {i \in DOMAIN s : s[i] \in S}

\* Moving a set of positions changes none of its size.
LEMMA Shifted ==
  ASSUME NEW S, \A i \in S : i \in Int, IsFiniteSet(S), NEW d \in Int
  PROVE  IsFiniteSet({i + d : i \in S}) /\ Cardinality({i + d : i \in S}) = Cardinality(S)
<1> DEFINE T == {i + d : i \in S}
           f == [i \in S |-> i + d]
<1>1. f \in Bijection(S, T)
  <2>1. f \in [S -> T]
    OBVIOUS
  <2>2. ASSUME NEW i \in S, NEW j \in S, f[i] = f[j] PROVE i = j
    <3>1. i \in Int /\ j \in Int /\ i + d = j + d
      BY <2>2
    <3> QED BY <3>1
  <2>3. \A t \in T : \E i \in S : f[i] = t
    OBVIOUS
  <2> QED BY <2>1, <2>2, <2>3 DEF Bijection, Injection, Surjection, IsInjective
<1>2. ExistsBijection(S, T)
  BY <1>1 DEF ExistsBijection
<1> QED BY <1>2, FS_Bijection

LEMMA HitsAreFinite ==
  ASSUME NEW U, NEW s \in Seq(U), NEW S
  PROVE  IsFiniteSet(Hits(s, S)) /\ Cardinality(Hits(s, S)) \in Nat
<1>1. IsFiniteSet(1 .. Len(s)) /\ DOMAIN s = 1 .. Len(s)
  BY FS_Interval
<1>2. Hits(s, S) \in SUBSET (1 .. Len(s))
  BY <1>1 DEF Hits
<1>3. IsFiniteSet(Hits(s, S))
  BY <1>1, <1>2, FS_Subset
<1> QED BY <1>3, FS_CardinalityType

(* What two sequences hold together is what each of them holds.            *)
LEMMA HitsOfBoth ==
  ASSUME NEW U, NEW s \in Seq(U), NEW t \in Seq(U), NEW S
  PROVE  Cardinality(Hits(s \o t, S)) = Cardinality(Hits(s, S)) + Cardinality(Hits(t, S))
<1> DEFINE n == Len(s)
           moved == {i + n : i \in Hits(t, S)}
<1>1. /\ s \o t \in Seq(U) /\ n \in Nat /\ Len(t) \in Nat /\ Len(s \o t) = n + Len(t)
      /\ DOMAIN s = 1 .. n /\ DOMAIN t = 1 .. Len(t) /\ DOMAIN (s \o t) = 1 .. n + Len(t)
      /\ \A i \in 1 .. n + Len(t) : (s \o t)[i] = IF i <= n THEN s[i] ELSE t[i - n]
  BY ConcatProperties
<1>2. Hits(s \o t, S) = Hits(s, S) \cup moved
  <2>1. ASSUME NEW i \in Hits(s \o t, S) PROVE i \in Hits(s, S) \cup moved
    <3>1. i \in 1 .. n + Len(t) /\ (s \o t)[i] \in S
      BY <1>1, <2>1 DEF Hits
    <3>2. CASE i <= n
      BY <1>1, <3>1, <3>2 DEF Hits
    <3>3. CASE ~ (i <= n)
      <4>1. i - n \in Hits(t, S) /\ i = (i - n) + n
        BY <1>1, <3>1, <3>3 DEF Hits
      <4> QED BY <4>1
    <3> QED BY <3>2, <3>3
  <2>2. ASSUME NEW i \in Hits(s, S) \cup moved PROVE i \in Hits(s \o t, S)
    <3>1. CASE i \in Hits(s, S)
      BY <1>1, <3>1 DEF Hits
    <3>2. CASE i \in moved
      <4>1. PICK j \in Hits(t, S) : i = j + n
        BY <3>2
      <4>2. j \in 1 .. Len(t) /\ t[j] \in S
        BY <1>1, <4>1 DEF Hits
      <4>3. i \in 1 .. n + Len(t) /\ ~ (i <= n) /\ i - n = j
        BY <1>1, <4>1, <4>2
      <4> QED BY <1>1, <4>2, <4>3 DEF Hits
    <3> QED BY <2>2, <3>1, <3>2
  <2> QED BY <2>1, <2>2
<1>3. Hits(s, S) \cap moved = {}
  BY <1>1 DEF Hits
<1>4. IsFiniteSet(Hits(t, S)) /\ IsFiniteSet(Hits(s, S))
  BY HitsAreFinite
<1> HIDE DEF moved
<1>5. IsFiniteSet(moved) /\ Cardinality(moved) = Cardinality(Hits(t, S))
  <2>1. \A i \in Hits(t, S) : i \in Int
    BY <1>1 DEF Hits
  <2>2. moved = {i + n : i \in Hits(t, S)} /\ n \in Int
    BY <1>1 DEF moved
  <2> HIDE DEF n
  <2> QED BY ONLY <1>4, <2>1, <2>2, Shifted
<1>6. Cardinality(Hits(s, S) \cup moved) =
        Cardinality(Hits(s, S)) + Cardinality(moved) - Cardinality(Hits(s, S) \cap moved)
  BY <1>4, <1>5, FS_Union
<1>7. Cardinality(Hits(s, S) \cap moved) = 0
  BY <1>3, FS_EmptySet
<1>8. Cardinality(Hits(s, S)) \in Nat /\ Cardinality(Hits(t, S)) \in Nat
  BY HitsAreFinite
<1> QED BY <1>2, <1>5, <1>6, <1>7, <1>8

(* A set of positions has a k-th member for every k up to its size.        *)
LEMMA NthIsMember ==
  ASSUME NEW n \in Nat, NEW S, \A i \in S : i \in 1 .. n, NEW k \in 1 .. Cardinality(S)
  PROVE  nth(S, k) \in S
<1> DEFINE below(m) == {j \in S : j < m}
           Enough   == {m \in Nat : Cardinality(below(m)) >= k}
<1>1. \A m : IsFiniteSet(below(m)) /\ Cardinality(below(m)) \in Nat
  <2> TAKE m
  <2>1. IsFiniteSet(1 .. n) /\ below(m) \in SUBSET (1 .. n)
    BY FS_Interval
  <2>2. IsFiniteSet(below(m))
    BY <2>1, FS_Subset
  <2> QED BY <2>2, FS_CardinalityType
<1>2. n + 1 \in Enough
  <2>1. below(n + 1) = S
    OBVIOUS
  <2>2. Cardinality(S) \in Nat
    BY <1>1, <2>1
  <2> HIDE DEF below
  <2> QED BY <2>1, <2>2
<1>3. PICK m \in Enough : \A i \in Enough : m <= i
  BY <1>2, LeastNatural
<1>4. m # 0
  <2>1. below(0) = {}
    OBVIOUS
  <2>2. Cardinality(below(0)) = 0
    BY <2>1, FS_EmptySet
  <2> QED BY <2>2
<1>5. m - 1 \in Nat /\ ~ (Cardinality(below(m - 1)) >= k)
  BY <1>3, <1>4
<1>6. m - 1 \in S /\ Cardinality(below(m)) = Cardinality(below(m - 1)) + 1
  <2>1. CASE m - 1 \in S
    <3>1. below(m) = below(m - 1) \cup {m - 1} /\ m - 1 \notin below(m - 1)
      BY <1>5, <2>1
    <3> HIDE DEF below
    <3> QED BY <1>1, <2>1, <3>1, FS_AddElement
  <2>2. CASE m - 1 \notin S
    <3>1. below(m) = below(m - 1)
      BY <1>5, <2>2
    <3> QED BY <1>3, <1>5, <3>1
  <2> QED BY <2>1, <2>2
<1>7. Cardinality(below(m - 1)) = k - 1
  <2>1. /\ Cardinality(below(m)) \in Nat /\ Cardinality(below(m - 1)) \in Nat
        /\ Cardinality(below(m)) >= k /\ k \in Nat
    <3>1. m \in Nat /\ Cardinality(below(m)) >= k
      BY <1>3
    <3>2. k \in Nat
      <4>1. below(n + 1) = S
        OBVIOUS
      <4>2. Cardinality(S) \in Nat
        BY <1>1, <4>1
      <4> QED BY ONLY k \in 1 .. Cardinality(S), <4>2, SMT
    <3> QED BY <1>1, <3>1, <3>2
  <2> HIDE DEF below
  <2> QED BY ONLY <1>5, <1>6, <2>1, SMT
<1>8. \E i \in S : Cardinality({j \in S : j < i}) = k - 1
  BY <1>6, <1>7
<1> QED BY <1>8 DEF nth
-----------------------------------------------------------------------------
(***************************************************************************)
(* The depth of clips in lists that are put together.                      *)
(***************************************************************************)
OfKind(kind) == {x \in DisplayItem : x.item = kind}

LEMMA DepthAtEnd ==
  ASSUME NEW s \in Seq(DisplayItem)
  PROVE  depth(s, Len(s) + 1) = Cardinality(Hits(s, OfKind("PushClip")))
                                  - Cardinality(Hits(s, OfKind("PopClip")))
<1> DEFINE Kind(kind) == {j \in 1 .. Len(s) + 1 - 1 : s[j].item = kind}
<1>1. depth(s, Len(s) + 1) = Cardinality(Kind("PushClip")) - Cardinality(Kind("PopClip"))
  BY DEF depth
<1>2. Kind("PushClip") = Hits(s, OfKind("PushClip"))
  BY DEF Hits, OfKind
<1>3. Kind("PopClip") = Hits(s, OfKind("PopClip"))
  BY DEF Hits, OfKind
<1> HIDE DEF Kind
<1> QED BY <1>1, <1>2, <1>3

\* The depth before an item depends on the items before it alone.
LEMMA DepthOfSame ==
  ASSUME NEW s, NEW q, NEW i, \A j \in 1 .. i - 1 : s[j] = q[j]
  PROVE  depth(s, i) = depth(q, i)
<1>1. \A kind : {j \in 1 .. i - 1 : s[j].item = kind} = {j \in 1 .. i - 1 : q[j].item = kind}
  OBVIOUS
<1> QED BY <1>1 DEF depth

(* The clips that are open inside the second of two lists are those the    *)
(* first leaves open and those it opened itself.                           *)
LEMMA DepthOfBoth ==
  ASSUME NEW s \in Seq(DisplayItem), NEW t \in Seq(DisplayItem)
  PROVE  /\ \A i \in 1 .. Len(s) + 1 : depth(s \o t, i) = depth(s, i)
         /\ \A k \in 1 .. Len(t) + 1 :
              depth(s \o t, Len(s) + k) = depth(s, Len(s) + 1) + depth(t, k)
<1>1. \A u \in Seq(DisplayItem) :
        /\ s \o u \in Seq(DisplayItem) /\ Len(s) \in Nat /\ Len(u) \in Nat
        /\ Len(s \o u) = Len(s) + Len(u)
        /\ \A i \in 1 .. Len(s) + Len(u) : (s \o u)[i] = IF i <= Len(s) THEN s[i] ELSE u[i - Len(s)]
  BY ConcatProperties
<1>2. ASSUME NEW i \in 1 .. Len(s) + 1 PROVE depth(s \o t, i) = depth(s, i)
  <2>1. \A j \in 1 .. i - 1 : (s \o t)[j] = s[j]
    BY <1>1
  <2> QED BY <2>1, DepthOfSame
<1>3. ASSUME NEW k \in 1 .. Len(t) + 1
      PROVE  depth(s \o t, Len(s) + k) = depth(s, Len(s) + 1) + depth(t, k)
  <2> DEFINE q == SubSeq(t, 1, k - 1)
  <2>1. /\ q \in Seq(DisplayItem) /\ Len(q) = k - 1 /\ k - 1 \in Nat
        /\ \A j \in 1 .. k - 1 : q[j] = t[j]
    BY <1>1
  <2> HIDE DEF q
  <2>2. depth(t, k) = depth(q, Len(q) + 1)
    <3>1. Len(q) + 1 = k
      BY <2>1
    <3> QED BY <2>1, <3>1, DepthOfSame
  <2>3. \A j \in 1 .. Len(s) + k - 1 : (s \o t)[j] = (s \o q)[j]
    BY <1>1, <2>1
  <2>4. Len(s \o q) = Len(s) + (k - 1) /\ Len(s) \in Nat /\ s \o q \in Seq(DisplayItem)
    BY <1>1, <2>1
  <2>5. depth(s \o t, Len(s) + k) = depth(s \o q, Len(s \o q) + 1)
    <3>1. Len(s \o q) + 1 = Len(s) + k
      BY <2>1, <2>4
    <3>2. ASSUME NEW n, n = Len(s) + k PROVE depth(s \o t, n) = depth(s \o q, n)
      <4>1. \A j \in 1 .. n - 1 : (s \o t)[j] = (s \o q)[j]
        BY <2>3, <2>4, <3>2
      <4> QED BY <4>1, DepthOfSame
    <3> QED BY <3>1, <3>2
  <2>6. depth(s \o q, Len(s \o q) + 1) = depth(s, Len(s) + 1) + depth(q, Len(q) + 1)
    <3> DEFINE Pushes == OfKind("PushClip")
               Pops   == OfKind("PopClip")
    <3> HIDE DEF Pushes, Pops
    <3>1. /\ Cardinality(Hits(s \o q, Pushes)) = Cardinality(Hits(s, Pushes)) + Cardinality(Hits(q, Pushes))
          /\ Cardinality(Hits(s \o q, Pops)) = Cardinality(Hits(s, Pops)) + Cardinality(Hits(q, Pops))
      BY <2>1, HitsOfBoth
    <3>2. /\ Cardinality(Hits(s, Pushes)) \in Nat /\ Cardinality(Hits(q, Pushes)) \in Nat
          /\ Cardinality(Hits(s, Pops)) \in Nat /\ Cardinality(Hits(q, Pops)) \in Nat
      BY <2>1, HitsAreFinite
    <3>3. \A u \in Seq(DisplayItem) :
            depth(u, Len(u) + 1) = Cardinality(Hits(u, Pushes)) - Cardinality(Hits(u, Pops))
      BY DepthAtEnd DEF Pushes, Pops
    <3>4. /\ depth(s, Len(s) + 1) = Cardinality(Hits(s, Pushes)) - Cardinality(Hits(s, Pops))
          /\ depth(q, Len(q) + 1) = Cardinality(Hits(q, Pushes)) - Cardinality(Hits(q, Pops))
          /\ depth(s \o q, Len(s \o q) + 1) =
               Cardinality(Hits(s \o q, Pushes)) - Cardinality(Hits(s \o q, Pops))
      BY <2>1, <2>4, <3>3
    <3> QED BY <3>1, <3>2, <3>4
  <2> QED BY <2>2, <2>5, <2>6
<1> QED BY <1>2, <1>3

-----------------------------------------------------------------------------
(***************************************************************************)
(* What is emitted for a fragment and what is pushed for it.               *)
(***************************************************************************)
Drawings == OfKind("Rect") \cup OfKind("Border") \cup OfKind("Text")
DrawnFor(id) == {x \in Drawings : x.of = id}

Frame == [frame : {"Fragment"}, id : Nat] \cup {PopClipFrame}
ClipEnds == {x \in Frame : x.frame = "PopClip"}

LEMMA ClipRectIsRect ==
  ASSUME NEW f \in Fragment
  PROVE  clip_rect(f) \in Rect
<1>1. \A a, b \in Au : saturating_add(a, b) \in Au /\ saturating_sub(a, b) \in Au
  BY WidthAssumption DEF saturating_add, saturating_sub, clamp, Au
<1>2. inset(f.border_box, f.border) \in Rect
  <2>1. /\ f.border_box.origin \in Au /\ f.border_box.size \in Au
        /\ f.border[1] \in Au /\ f.border[2] \in Au
    BY DEF Fragment, Rect
  <2>2. \A a \in Au : Larger(a, 0) \in Au
    BY WidthAssumption DEF Larger, Au
  <2> QED BY <1>1, <2>1, <2>2 DEF inset, Rect
<1>3. Bounds \in Rect
  BY TreesAssumption, WidthAssumption DEF Bounds, Rect, Au
<1>4. Region.min \in Au /\ Region.max \in Au
  <2>1. /\ Region.min = saturating_sub(Bounds.origin, OFFSCREEN_MARGIN)
        /\ Region.max = saturating_add(far_edge(Bounds), OFFSCREEN_MARGIN)
    BY DEF Region, inflate
  <2> QED BY <1>3, <2>1, FarEdgeIsAu, LimitsAssumption, WidthAssumption
          DEF saturating_add, saturating_sub, clamp, Au
<1>5. ASSUME NEW r \in Rect PROVE clamp_rect(Region, r) \in Rect
  <2>1. \A a \in Au : clamp(a, Region.min, Region.max) \in Au
    BY <1>4 DEF clamp
  <2>2. \A a, b \in Au : Larger(a, b) \in Au
    BY DEF Larger
  <2> QED BY <1>1, <2>1, <2>2, FarEdgeIsAu DEF clamp_rect, Between, Rect
<1> QED BY <1>2, <1>5 DEF clip_rect

LEMMA PaintedAreDrawings ==
  ASSUME NEW id \in Nat, NEW f \in Fragment
  PROVE  /\ paint_fragment(id, f) \in Seq(DrawnFor(id))
         /\ paint_fragment(id, f) \in Seq(Drawings)
<1>1. paint_block(id, f) \in Seq(DrawnFor(id))
  <2>1. f.border_box \in Rect /\ \A side \in 1 .. 2 : f.border[side] \in Au
    BY DEF Fragment
  <2>2. solid_border_widths(f) \in [1 .. 2 -> Au]
    BY <2>1, WidthAssumption DEF solid_border_widths, Larger, Au
  <2>3. RectItem(id, f.border_box) \in DrawnFor(id)
    BY <2>1 DEF RectItem, DrawnFor, Drawings, OfKind, DisplayItem
  <2>4. BorderItem(id, f.border_box, solid_border_widths(f)) \in DrawnFor(id)
    BY <2>1, <2>2 DEF BorderItem, DrawnFor, Drawings, OfKind, DisplayItem
  <2> QED BY <2>3, <2>4 DEF paint_block
<1>2. paint_runs(id, f) \in Seq(DrawnFor(id))
  <2> DEFINE Shown == {i \in DOMAIN f.runs : /\ f.runs[i].glyphs # <<>>
                                             /\ contains_point(Region, f.runs[i].origin)}
  <2>1. f.runs \in Seq(GlyphRun) /\ Len(f.runs) \in Nat /\ \A i \in Shown : i \in 1 .. Len(f.runs)
    BY DEF Fragment
  <2> HIDE DEF Shown
  <2>2. Cardinality(Shown) \in Nat
    <3>1. Shown \in SUBSET (1 .. Len(f.runs)) /\ IsFiniteSet(1 .. Len(f.runs))
      BY <2>1, FS_Interval
    <3>2. IsFiniteSet(Shown)
      BY <3>1, FS_Subset
    <3> QED BY <3>2, FS_CardinalityType
  <2>3. \A k \in 1 .. Cardinality(Shown) : nth(Shown, k) \in Shown
    BY <2>1, NthIsMember
  <2>4. \A k \in 1 .. Cardinality(Shown) : TextItem(id, f.runs[nth(Shown, k)]) \in DrawnFor(id)
    <3> TAKE k \in 1 .. Cardinality(Shown)
    <3>1. nth(Shown, k) \in 1 .. Len(f.runs)
      BY <2>1, <2>3
    <3>2. f.runs[nth(Shown, k)] \in GlyphRun
      BY <2>1, <3>1
    <3> QED BY <3>2 DEF TextItem, DrawnFor, Drawings, OfKind, DisplayItem
  <2>5. [k \in 1 .. Cardinality(Shown) |-> TextItem(id, f.runs[nth(Shown, k)])] \in Seq(DrawnFor(id))
    BY <2>2, <2>4
  <2> QED BY <2>5 DEF paint_runs, Shown
<1>3. paint_fragment(id, f) \in Seq(DrawnFor(id))
  BY <1>1, <1>2 DEF paint_fragment
<1>4. DrawnFor(id) \subseteq Drawings
  BY DEF DrawnFor
<1> QED BY <1>3, <1>4

\* Drawing opens and closes nothing.
LEMMA DrawingsKeepDepth ==
  ASSUME NEW s \in Seq(Drawings)
  PROVE  s \in Seq(DisplayItem) /\ \A i \in 1 .. Len(s) + 1 : depth(s, i) = 0
<1>1. s \in Seq(DisplayItem)
  <2>1. Drawings \subseteq DisplayItem
    BY DEF Drawings, OfKind
  <2> QED BY <2>1
<1>2. ASSUME NEW i \in 1 .. Len(s) + 1 PROVE depth(s, i) = 0
  <2>1. \A j \in 1 .. i - 1 : s[j].item \notin {"PushClip", "PopClip"}
    BY DEF Drawings, OfKind
  <2>2. /\ {j \in 1 .. i - 1 : s[j].item = "PushClip"} = {}
        /\ {j \in 1 .. i - 1 : s[j].item = "PopClip"} = {}
    BY <2>1
  <2>3. depth(s, i) = Cardinality({}) - Cardinality({})
    BY <2>2 DEF depth
  <2> QED BY <2>3, FS_EmptySet
<1> QED BY <1>1, <1>2

(* A fragment leaves one clip open if its overflow is hidden, and closes   *)
(* none.                                                                   *)
LEMMA FragmentOpensItsClip ==
  ASSUME NEW id \in Nat, NEW f \in Fragment
  PROVE  LET new == fragment_items(id, f)
         IN  /\ new \in Seq(DisplayItem)
             /\ depth(new, Len(new) + 1) = IF f.hidden THEN 1 ELSE 0
             /\ \A i \in DOMAIN new : new[i].item # "PopClip"
<1> DEFINE drawn == paint_fragment(id, f)
           open  == IF f.hidden THEN <<PushClip(id, clip_rect(f))>> ELSE <<>>
<1>1. drawn \in Seq(Drawings) /\ drawn \in Seq(DisplayItem) /\ depth(drawn, Len(drawn) + 1) = 0
  BY PaintedAreDrawings, DrawingsKeepDepth
<1>2. f.hidden \in BOOLEAN
  BY DEF Fragment
<1>3. PushClip(id, clip_rect(f)) \in DisplayItem /\ PushClip(id, clip_rect(f)).item = "PushClip"
  BY ClipRectIsRect DEF PushClip, DisplayItem
<1> HIDE DEF drawn
<1>4. CASE f.hidden
  <2> DEFINE p == PushClip(id, clip_rect(f))
  <2>1. fragment_items(id, f) = drawn \o <<p>>
    BY <1>4 DEF fragment_items, drawn
  <2> HIDE DEF p
  <2>2. p \in DisplayItem /\ p.item = "PushClip"
    BY <1>3 DEF p
  <2>3. <<p>> \in Seq(DisplayItem) /\ Len(<<p>>) = 1 /\ <<p>>[1] = p
    BY <2>2
  <2>4. depth(<<p>>, 2) = 1
    <3>1. depth(<<p>>, 1) = 0 /\ depth(<<p>>, 1 + 1) = depth(<<p>>, 1) + 1
      BY <2>2, <2>3, DepthStep
    <3> QED BY <3>1
  <2>5. /\ drawn \o <<p>> \in Seq(DisplayItem) /\ Len(drawn) \in Nat
        /\ Len(drawn \o <<p>>) = Len(drawn) + 1
        /\ \A i \in 1 .. Len(drawn) + 1 :
             (drawn \o <<p>>)[i] = IF i <= Len(drawn) THEN drawn[i] ELSE p
    BY <1>1, <2>3, ConcatProperties
  <2>6. depth(drawn \o <<p>>, Len(drawn) + 2) = 1
    <3>1. depth(drawn \o <<p>>, Len(drawn) + 2) = depth(drawn, Len(drawn) + 1) + depth(<<p>>, 2)
      <4>1. 2 \in 1 .. Len(<<p>>) + 1
        BY <2>3
      <4> QED BY ONLY <1>1, <2>3, <4>1, DepthOfBoth
    <3> QED BY <1>1, <2>4, <3>1
  <2>7. \A i \in 1 .. Len(drawn) : drawn[i].item # "PopClip"
    BY <1>1 DEF Drawings, OfKind
  <2>8. Len(drawn \o <<p>>) + 1 = Len(drawn) + 2
    BY <2>5
  <2>9. \A i \in DOMAIN (drawn \o <<p>>) : (drawn \o <<p>>)[i].item # "PopClip"
    BY <2>2, <2>5, <2>7
  <2> QED BY <1>4, <2>1, <2>5, <2>6, <2>8, <2>9
<1>5. CASE ~ f.hidden
  <2>1. fragment_items(id, f) = drawn \o <<>>
    BY <1>5 DEF fragment_items, drawn
  <2>2. drawn \o <<>> = drawn
    BY <1>1, ConcatEmptySeq
  <2>3. \A i \in DOMAIN drawn : drawn[i].item # "PopClip"
    BY <1>1 DEF Drawings, OfKind
  <2> QED BY <1>1, <1>5, <2>1, <2>2, <2>3
<1> QED BY <1>2, <1>4, <1>5

LEMMA FragmentPushesItsEnd ==
  ASSUME NEW f \in Fragment
  PROVE  /\ pending_frames(f) \in Seq(Frame)
         /\ Cardinality(Hits(pending_frames(f), ClipEnds)) = IF f.hidden THEN 1 ELSE 0
<1> DEFINE below == [i \in DOMAIN f.children |-> FragmentFrame(f.children[i])]
           close == IF f.hidden THEN <<PopClipFrame>> ELSE <<>>
<1>1. below \in Seq(Frame) /\ \A i \in DOMAIN below : below[i].frame = "Fragment"
  <2>1. f.children \in Seq(Nat)
    BY DEF Fragment
  <2>2. \A i \in DOMAIN f.children :
          FragmentFrame(f.children[i]) \in Frame /\ FragmentFrame(f.children[i]).frame = "Fragment"
    BY <2>1 DEF Frame, FragmentFrame
  <2> QED BY <2>1, <2>2
<1>2. Cardinality(Hits(below, ClipEnds)) = 0
  <2>1. Hits(below, ClipEnds) = {}
    <3> HIDE DEF below
    <3> QED BY <1>1 DEF Hits, ClipEnds
  <2> QED BY <2>1, FS_EmptySet
<1>3. close \in Seq(Frame) /\ Cardinality(Hits(close, ClipEnds)) = IF f.hidden THEN 1 ELSE 0
  <2>1. PopClipFrame \in ClipEnds
    BY DEF ClipEnds, Frame, PopClipFrame
  <2>2. CASE f.hidden
    <3>1. Hits(<<PopClipFrame>>, ClipEnds) = {1}
      BY <2>1 DEF Hits
    <3>2. Cardinality({1}) = 1
      BY FS_Singleton
    <3>3. close = <<PopClipFrame>> /\ PopClipFrame \in Frame
      BY <2>1, <2>2 DEF ClipEnds
    <3> HIDE DEF close
    <3> QED BY <2>2, <3>1, <3>2, <3>3
  <2>3. CASE ~ f.hidden
    <3>1. Hits(<<>>, ClipEnds) = {}
      BY DEF Hits
    <3>2. close = <<>>
      BY <2>3
    <3> HIDE DEF close
    <3> QED BY <2>3, <3>1, <3>2, FS_EmptySet
  <2> QED BY <2>2, <2>3
<1>4. pending_frames(f) = below \o close
  BY DEF pending_frames
<1> HIDE DEF below, close
<1> QED BY <1>1, <1>2, <1>3, <1>4, HitsOfBoth, ConcatProperties

-----------------------------------------------------------------------------
(***************************************************************************)
(* The walk.                                                               *)
(***************************************************************************)
Shape ==
  /\ tree \in FragmentTree
  /\ stack \in Seq(Frame)
  /\ items \in Seq(DisplayItem)

(* The clips that the list has open are those the stack is going to close. *)
WalkInv ==
  /\ Shape
  /\ depth(items, Len(items) + 1) = Cardinality(Hits(stack, ClipEnds))
  /\ \A i \in DOMAIN items : items[i].item = "PopClip" => depth(items, i) > 0
  /\ built => stack = <<>>

\* A list that balances so far goes on with items that pop no more than is open.
LEMMA Extended ==
  ASSUME NEW s \in Seq(DisplayItem), NEW t \in Seq(DisplayItem),
         \A i \in DOMAIN s : s[i].item = "PopClip" => depth(s, i) > 0,
         \A k \in DOMAIN t : t[k].item = "PopClip" => depth(s, Len(s) + 1) + depth(t, k) > 0
  PROVE  /\ s \o t \in Seq(DisplayItem)
         /\ depth(s \o t, Len(s \o t) + 1) = depth(s, Len(s) + 1) + depth(t, Len(t) + 1)
         /\ \A i \in DOMAIN (s \o t) : (s \o t)[i].item = "PopClip" => depth(s \o t, i) > 0
<1>1. /\ s \o t \in Seq(DisplayItem) /\ Len(s) \in Nat /\ Len(t) \in Nat
      /\ Len(s \o t) = Len(s) + Len(t) /\ DOMAIN (s \o t) = 1 .. Len(s) + Len(t)
      /\ DOMAIN s = 1 .. Len(s) /\ DOMAIN t = 1 .. Len(t)
      /\ \A i \in 1 .. Len(s) + Len(t) : (s \o t)[i] = IF i <= Len(s) THEN s[i] ELSE t[i - Len(s)]
  BY ConcatProperties
<1>2. depth(s \o t, Len(s \o t) + 1) = depth(s, Len(s) + 1) + depth(t, Len(t) + 1)
  <2>1. Len(s \o t) + 1 = Len(s) + (Len(t) + 1) /\ Len(t) + 1 \in 1 .. Len(t) + 1
    BY <1>1
  <2> QED BY <2>1, DepthOfBoth
<1>3. ASSUME NEW i \in 1 .. Len(s) + Len(t), (s \o t)[i].item = "PopClip"
      PROVE  depth(s \o t, i) > 0
  <2>1. CASE i <= Len(s)
    <3>1. i \in 1 .. Len(s) /\ i \in 1 .. Len(s) + 1
      BY <1>1, <2>1
    <3> QED BY <1>1, <1>3, <3>1, <2>1, DepthOfBoth
  <2>2. CASE ~ (i <= Len(s))
    <3> DEFINE k == i - Len(s)
    <3>1. k \in 1 .. Len(t) /\ k \in 1 .. Len(t) + 1 /\ i = Len(s) + k /\ t[k].item = "PopClip"
      BY <1>1, <1>3, <2>2
    <3> HIDE DEF k
    <3>2. depth(s \o t, Len(s) + k) = depth(s, Len(s) + 1) + depth(t, k)
      BY <3>1, DepthOfBoth
    <3>3. k \in DOMAIN t
      BY <1>1, <3>1
    <3> QED BY <3>1, <3>2, <3>3
  <2> QED BY <1>1, <2>1, <2>2
<1> QED BY <1>1, <1>2, <1>3

LEMMA HeadAndRest ==
  ASSUME NEW U, NEW s \in Seq(U), s # <<>>
  PROVE  s = <<Head(s)>> \o Tail(s)
<1>1. Head(s) \in U /\ Tail(s) \in Seq(U) /\ <<Head(s)>> \in Seq(U)
  BY HeadTailProperties
<1>2. Len(s) \in Nat /\ Len(s) >= 1 /\ Len(Tail(s)) = Len(s) - 1 /\ s[1] = Head(s)
      /\ \A i \in 1 .. Len(Tail(s)) : Tail(s)[i] = s[i + 1]
  BY HeadTailProperties, EmptySeq, LenProperties
<1> DEFINE q == <<Head(s)>> \o Tail(s)
<1>3. /\ q \in Seq(U) /\ Len(q) = 1 + Len(Tail(s))
      /\ \A i \in 1 .. 1 + Len(Tail(s)) :
           q[i] = IF i <= 1 THEN Head(s) ELSE Tail(s)[i - 1]
  BY <1>1, ConcatProperties
<1> HIDE DEF q
<1>4. Len(q) = Len(s) /\ \A i \in 1 .. Len(s) : q[i] = s[i]
  BY <1>2, <1>3
<1>5. q = s
  BY <1>3, <1>4, SeqEqual
<1> QED BY <1>5 DEF q

LEMMA HitsOfRest ==
  ASSUME NEW U, NEW s \in Seq(U), s # <<>>, NEW S
  PROVE  /\ Head(s) \in U /\ Tail(s) \in Seq(U)
         /\ Cardinality(Hits(s, S)) = Cardinality(Hits(Tail(s), S)) + IF Head(s) \in S THEN 1 ELSE 0
<1>1. Head(s) \in U /\ Tail(s) \in Seq(U) /\ <<Head(s)>> \in Seq(U)
  BY HeadTailProperties
<1>2. s = <<Head(s)>> \o Tail(s)
  BY HeadAndRest
<1>3. Cardinality(Hits(<<Head(s)>>, S)) = IF Head(s) \in S THEN 1 ELSE 0
  <2>1. CASE Head(s) \in S
    <3>1. Hits(<<Head(s)>>, S) = {1}
      BY <2>1 DEF Hits
    <3> QED BY <2>1, <3>1, FS_Singleton
  <2>2. CASE Head(s) \notin S
    <3>1. Hits(<<Head(s)>>, S) = {}
      BY <2>2 DEF Hits
    <3> QED BY <2>2, <3>1, FS_EmptySet
  <2> QED BY <2>1, <2>2
<1>4. Cardinality(Hits(s, S)) = Cardinality(Hits(<<Head(s)>>, S)) + Cardinality(Hits(Tail(s), S))
  <2> DEFINE h == <<Head(s)>>
  <2>1. h \in Seq(U) /\ Tail(s) \in Seq(U) /\ s = h \o Tail(s)
    BY <1>1, <1>2
  <2> HIDE DEF h
  <2>2. Cardinality(Hits(h \o Tail(s), S)) = Cardinality(Hits(h, S)) + Cardinality(Hits(Tail(s), S))
    BY <2>1, HitsOfBoth
  <2> QED BY <2>1, <2>2 DEF h
<1>5. Cardinality(Hits(Tail(s), S)) \in Nat
  BY <1>1, HitsAreFinite
<1> QED BY <1>1, <1>3, <1>4, <1>5

\* The fragment whose background the canvas has is one of the tree's, or none.
LEMMA CanvasComesFromTree ==
  ASSUME NEW t \in FragmentTree
  PROVE  canvas_background(t) \in Nat
<1>1. ASSUME NEW local PROVE find_element_fragment(t, local) \in Nat
  <2> DEFINE seen == survey(t).seen
             At == {i \in 1 .. Len(t.fragments) :
                      i \in DOMAIN seen /\ Resolves(t, seen[i]) /\ t.fragments[seen[i]].element = local}
  <2>1. t.fragments \in Seq(Fragment) /\ Len(t.fragments) \in Nat
    BY DEF FragmentTree
  <2>2. At # {} => Min(At) \in At
    <3>1. At \in SUBSET Nat
      BY <2>1
    <3>2. At # {} => \E i \in At : \A j \in At : i <= j
      <4> HIDE DEF At
      <4> QED BY <3>1, LeastNatural
    <3> HIDE DEF At
    <3> QED BY <3>2 DEF Min
  <2>3. \A i \in At : seen[i] \in Nat
    BY <2>1 DEF Resolves
  <2>4. find_element_fragment(t, local) = IF At = {} THEN 0 ELSE seen[Min(At)]
    BY DEF find_element_fragment
  <2> HIDE DEF At, seen
  <2> QED BY <2>2, <2>3, <2>4
<1> QED BY <1>1 DEF canvas_background

LEMMA CanvasItems ==
  ASSUME NEW source \in Nat
  PROVE  canvas_items(source) \in Seq(Drawings)
<1>1. Bounds \in Rect
  BY TreesAssumption, WidthAssumption DEF Bounds, Rect, Au
<1>2. RectItem(source, Bounds) \in Drawings
  BY <1>1 DEF RectItem, Drawings, OfKind, DisplayItem
<1> QED BY <1>2 DEF canvas_items

LEMMA WalkStarts == BuildInit => WalkInv
<1> SUFFICES ASSUME BuildInit PROVE WalkInv
  OBVIOUS
<1>1. tree \in FragmentTree /\ tree.root \in Nat
  BY TreesAssumption DEF BuildInit, FragmentTree
<1>2. items \in Seq(Drawings)
  BY <1>1, CanvasComesFromTree, CanvasItems DEF BuildInit
<1>3. items \in Seq(DisplayItem) /\ depth(items, Len(items) + 1) = 0
  BY <1>2, DrawingsKeepDepth
<1>4. \A i \in DOMAIN items : items[i].item # "PopClip"
  BY <1>2 DEF Drawings, OfKind
<1>5. stack = <<FragmentFrame(tree.root)>> /\ FragmentFrame(tree.root) \in Frame
      /\ FragmentFrame(tree.root) \notin ClipEnds
  BY <1>1 DEF BuildInit, Frame, FragmentFrame, ClipEnds
<1>6. stack \in Seq(Frame) /\ Cardinality(Hits(stack, ClipEnds)) = 0
  <2>1. Hits(stack, ClipEnds) = {}
    BY <1>5 DEF Hits
  <2> QED BY <1>5, <2>1, FS_EmptySet
<1> QED BY <1>1, <1>3, <1>4, <1>6 DEF WalkInv, Shape, BuildInit

LEMMA DrainedClips ==
  ASSUME WalkInv
  PROVE  LET new == drain_pending_pop_clips(stack)
         IN  /\ new \in Seq(DisplayItem)
             /\ depth(items, Len(items) + 1) + depth(new, Len(new) + 1) = 0
             /\ \A k \in DOMAIN new :
                  new[k] = PopClip /\ depth(items, Len(items) + 1) + depth(new, k) > 0
<1> DEFINE new == drain_pending_pop_clips(stack)
           n   == Cardinality(Hits(stack, ClipEnds))
<1>1. n \in Nat /\ depth(items, Len(items) + 1) = n
  BY HitsAreFinite DEF WalkInv, Shape
<1>2. new = [k \in 1 .. n |-> PopClip]
  <2>1. {i \in DOMAIN stack : stack[i].frame = "PopClip"} = Hits(stack, ClipEnds)
    BY DEF WalkInv, Shape, Hits, ClipEnds
  <2> QED BY <2>1 DEF drain_pending_pop_clips
<1> HIDE DEF new, n
<1>3. /\ new \in Seq(DisplayItem) /\ Len(new) = n /\ DOMAIN new = 1 .. n
      /\ \A k \in 1 .. n : new[k] = PopClip
  <2>1. PopClip \in DisplayItem
    BY DEF DisplayItem
  <2> QED BY <1>1, <1>2, <2>1
<1>4. ASSUME NEW k \in 1 .. n + 1 PROVE depth(new, k) = 1 - k
  <2>1. \A j \in 1 .. k - 1 : new[j].item = "PopClip"
    BY <1>1, <1>3 DEF PopClip
  <2>2. {j \in 1 .. k - 1 : new[j].item = "PushClip"} = {}
    BY <2>1
  <2>3. {j \in 1 .. k - 1 : new[j].item = "PopClip"} = 1 .. k - 1
    BY <2>1
  <2>4. depth(new, k) = Cardinality({}) - Cardinality(1 .. k - 1)
    BY <2>2, <2>3 DEF depth
  <2>5. Cardinality(1 .. k - 1) = k - 1
    <3>1. k - 1 \in Nat
      BY <1>1
    <3> QED BY <3>1, FS_Interval
  <2> QED BY <2>4, <2>5, <1>1, FS_EmptySet
<1>5. depth(new, Len(new) + 1) = - n
  BY <1>1, <1>3, <1>4
<1>6. \A k \in DOMAIN new : new[k] = PopClip /\ n + depth(new, k) > 0
  BY <1>1, <1>3, <1>4
<1> QED BY <1>1, <1>3, <1>5, <1>6 DEF new

LEMMA WalkKept == WalkInv /\ [Walk]_buildVars => WalkInv'
<1> SUFFICES ASSUME WalkInv, [Walk]_buildVars PROVE WalkInv'
  OBVIOUS
<1>1. /\ tree \in FragmentTree /\ stack \in Seq(Frame) /\ items \in Seq(DisplayItem)
      /\ depth(items, Len(items) + 1) = Cardinality(Hits(stack, ClipEnds))
      /\ \A i \in DOMAIN items : items[i].item = "PopClip" => depth(items, i) > 0
  BY DEF WalkInv, Shape
<1>2. stack # <<>> =>
        /\ Head(stack) \in Frame /\ Tail(stack) \in Seq(Frame)
        /\ Cardinality(Hits(stack, ClipEnds)) =
             Cardinality(Hits(Tail(stack), ClipEnds)) + IF Head(stack) \in ClipEnds THEN 1 ELSE 0
        /\ Cardinality(Hits(Tail(stack), ClipEnds)) \in Nat
  <2> SUFFICES ASSUME stack # <<>>
               PROVE  /\ Head(stack) \in Frame /\ Tail(stack) \in Seq(Frame)
                      /\ Cardinality(Hits(stack, ClipEnds)) =
                           Cardinality(Hits(Tail(stack), ClipEnds))
                             + IF Head(stack) \in ClipEnds THEN 1 ELSE 0
                      /\ Cardinality(Hits(Tail(stack), ClipEnds)) \in Nat
    OBVIOUS
  <2>1. /\ Head(stack) \in Frame /\ Tail(stack) \in Seq(Frame)
        /\ Cardinality(Hits(stack, ClipEnds)) =
             Cardinality(Hits(Tail(stack), ClipEnds)) + IF Head(stack) \in ClipEnds THEN 1 ELSE 0
    BY <1>1, HitsOfRest
  <2> QED BY <2>1, HitsAreFinite
<1>3. CASE VisitFragment
  <2> DEFINE id  == Head(stack).id
             f   == tree.fragments[id]
             new == fragment_items(id, f)
             add == pending_frames(f)
  <2>1. /\ id \in Nat /\ f \in Fragment /\ Head(stack) \notin ClipEnds /\ stack # <<>>
        /\ items' = items \o new /\ stack' = add \o Tail(stack) /\ tree' = tree /\ built' = built /\ ~ built
    BY <1>1, <1>2, <1>3 DEF VisitFragment, NextFrame, Resolves, FragmentTree, Frame, ClipEnds, PopClipFrame
  <2> HIDE DEF id, f
  <2>2. /\ new \in Seq(DisplayItem) /\ depth(new, Len(new) + 1) = IF f.hidden THEN 1 ELSE 0
        /\ \A k \in DOMAIN new : new[k].item # "PopClip"
    BY <2>1, FragmentOpensItsClip
  <2>3. add \in Seq(Frame) /\ Cardinality(Hits(add, ClipEnds)) = IF f.hidden THEN 1 ELSE 0
    BY <2>1, FragmentPushesItsEnd
  <2> HIDE DEF new, add
  <2>4. /\ items' \in Seq(DisplayItem)
        /\ depth(items', Len(items') + 1) = depth(items, Len(items) + 1) + depth(new, Len(new) + 1)
        /\ \A i \in DOMAIN items' : items'[i].item = "PopClip" => depth(items', i) > 0
    BY <1>1, <2>1, <2>2, Extended
  <2>5. stack' \in Seq(Frame) /\ Cardinality(Hits(stack', ClipEnds)) =
          Cardinality(Hits(add, ClipEnds)) + Cardinality(Hits(Tail(stack), ClipEnds))
    <3>1. stack' = add \o Tail(stack) /\ Tail(stack) \in Seq(Frame)
      BY <1>2, <2>1
    <3>2. add \o Tail(stack) \in Seq(Frame)
      BY ONLY <2>3, <3>1, ConcatProperties
    <3>3. Cardinality(Hits(add \o Tail(stack), ClipEnds)) =
            Cardinality(Hits(add, ClipEnds)) + Cardinality(Hits(Tail(stack), ClipEnds))
      BY ONLY <2>3, <3>1, HitsOfBoth
    <3> QED BY ONLY <3>1, <3>2, <3>3
  <2>6. depth(items', Len(items') + 1) = Cardinality(Hits(stack', ClipEnds))
    BY <1>1, <1>2, <2>1, <2>2, <2>3, <2>4, <2>5
  <2> QED BY <1>1, <2>1, <2>4, <2>5, <2>6 DEF WalkInv, Shape
<1>4. CASE SkipDangling
  <2>1. /\ Head(stack) \notin ClipEnds /\ stack # <<>> /\ stack' = Tail(stack)
        /\ tree' = tree /\ items' = items /\ built' = built /\ ~ built
    BY <1>4 DEF SkipDangling, NextFrame, ClipEnds
  <2> QED BY <1>1, <1>2, <2>1 DEF WalkInv, Shape
<1>5. CASE CloseClip
  <2>1. /\ Head(stack) \in ClipEnds /\ stack # <<>> /\ stack' = Tail(stack)
        /\ tree' = tree /\ items' = Append(items, PopClip) /\ built' = built /\ ~ built
    BY <1>2, <1>5 DEF CloseClip, NextFrame, ClipEnds
  <2> DEFINE pops == <<PopClip>>
  <2>2. items' = items \o pops /\ pops \in Seq(DisplayItem) /\ Len(pops) = 1 /\ pops[1].item = "PopClip"
    <3>1. PopClip \in DisplayItem
      BY DEF DisplayItem
    <3> QED BY <1>1, <2>1, <3>1, AppendIsConcat DEF PopClip
  <2> HIDE DEF pops
  <2>3. depth(pops, 1) = 0 /\ depth(pops, Len(pops) + 1) = - 1
    <3>1. depth(pops, 1) = 0 /\ depth(pops, 1 + 1) = depth(pops, 1) - 1
      BY <2>2, DepthStep
    <3> QED BY <2>2, <3>1
  <2>4. depth(items, Len(items) + 1) > 0 /\ \A k \in DOMAIN pops : k = 1
    BY <1>1, <1>2, <2>1, <2>2
  <2>5. \A k \in DOMAIN pops : depth(items, Len(items) + 1) + depth(pops, k) > 0
    BY <1>1, <1>2, <2>1, <2>3, <2>4
  <2>6. /\ items' \in Seq(DisplayItem)
        /\ depth(items', Len(items') + 1) = depth(items, Len(items) + 1) + depth(pops, Len(pops) + 1)
        /\ \A i \in DOMAIN items' : items'[i].item = "PopClip" => depth(items', i) > 0
    BY <1>1, <2>2, <2>5, Extended
  <2>7. depth(items', Len(items') + 1) = Cardinality(Hits(stack', ClipEnds))
    BY <1>1, <1>2, <2>1, <2>3, <2>6
  <2> QED BY <1>1, <1>2, <2>1, <2>6, <2>7 DEF WalkInv, Shape
<1>6. CASE StopWalk
  <2> DEFINE new == drain_pending_pop_clips(stack)
  <2>1. items' = items \o new /\ stack' = <<>> /\ tree' = tree
    BY <1>6 DEF StopWalk
  <2>2. /\ new \in Seq(DisplayItem)
        /\ depth(items, Len(items) + 1) + depth(new, Len(new) + 1) = 0
        /\ \A k \in DOMAIN new : depth(items, Len(items) + 1) + depth(new, k) > 0
    BY DrainedClips
  <2> HIDE DEF new
  <2>3. /\ items' \in Seq(DisplayItem)
        /\ depth(items', Len(items') + 1) = 0
        /\ \A i \in DOMAIN items' : items'[i].item = "PopClip" => depth(items', i) > 0
    BY <1>1, <2>1, <2>2, Extended
  <2>4. Cardinality(Hits(<<>>, ClipEnds)) = 0
    <3>1. Hits(<<>>, ClipEnds) = {}
      BY DEF Hits
    <3> QED BY <3>1, FS_EmptySet
  <2> QED BY <1>1, <2>1, <2>3, <2>4, EmptySeq DEF WalkInv, Shape
<1>7. CASE EndWalk
  BY <1>7 DEF EndWalk, WalkInv, Shape
<1>8. CASE UNCHANGED buildVars
  BY <1>8 DEF buildVars, WalkInv, Shape
<1> QED BY <1>3, <1>4, <1>5, <1>6, <1>7, <1>8 DEF Walk

LEMMA WalkInvariance == BuildSpec => []WalkInv
BY WalkStarts, WalkKept, PTL DEF BuildSpec

(* The list balances at every step of the walk and wherever it stops, for  *)
(* every tree: one with dangling ids, shared children and cycles included. *)
THEOREM ListsBalance == BuildSpec => []ClipsBalance
<1>1. ASSUME WalkInv PROVE ClipsBalance
  <2>1. {i \in DOMAIN stack : stack[i].frame = "PopClip"} = Hits(stack, ClipEnds)
    BY <1>1 DEF WalkInv, Shape, Hits, ClipEnds
  <2>2. stack = <<>> => Cardinality(Hits(stack, ClipEnds)) = 0
    <3>1. Hits(<<>>, ClipEnds) = {}
      BY DEF Hits
    <3> QED BY <3>1, FS_EmptySet
  <2> QED BY <1>1, <2>1, <2>2 DEF ClipsBalance, WalkInv
<1> QED BY <1>1, WalkInvariance, PTL
-----------------------------------------------------------------------------
(***************************************************************************)
(* Who is below whom in a tree as layout builds it.                        *)
(***************************************************************************)
Kids(t, p) == ToSet(t.fragments[p].children)

\* Lemma: what IsLaidOut says of children taken as a set.
LEMMA OneParentEach ==
  ASSUME NEW t \in FragmentTree, IsLaidOut(t)
  PROVE  /\ t.root \in DOMAIN t.fragments
         /\ \A p \in DOMAIN t.fragments :
              Kids(t, p) \subseteq DOMAIN t.fragments /\ t.root \notin Kids(t, p)
         /\ \A p, q \in DOMAIN t.fragments :
              Kids(t, p) \cap Kids(t, q) # {} => p = q
<1>1. /\ t.root \in DOMAIN t.fragments
      /\ \A p, q \in DOMAIN t.fragments :
           \A i \in DOMAIN t.fragments[p].children, j \in DOMAIN t.fragments[q].children :
              /\ t.fragments[p].children[i] \in DOMAIN t.fragments
              /\ t.fragments[p].children[i] # t.root
              /\ t.fragments[p].children[i] = t.fragments[q].children[j] => p = q
  BY DEF IsLaidOut, Resolves
<1>2. \A p, n : n \in Kids(t, p) <=>
                  \E i \in DOMAIN t.fragments[p].children : n = t.fragments[p].children[i]
  BY DEF Kids, ToSet
<1> QED BY <1>1, <1>2

\* Lemma: a subtree is the least set that holds its root and is closed.
LEMMA SubtreeIsLeast ==
  ASSUME NEW t \in FragmentTree, IsLaidOut(t), NEW a \in DOMAIN t.fragments
  PROVE  /\ a \in Subtree(t, a) /\ Subtree(t, a) \subseteq DOMAIN t.fragments
         /\ \A n \in Subtree(t, a) : Kids(t, n) \subseteq Subtree(t, a)
         /\ \A S \in SUBSET DOMAIN t.fragments :
              a \in S /\ (\A n \in S : Kids(t, n) \subseteq S) => Subtree(t, a) \subseteq S
<1>1. \A S : ChildClosed(t, S) <=> \A n \in S : Kids(t, n) \subseteq S
  BY DEF ChildClosed, Kids
<1>2. \A n \in DOMAIN t.fragments : Kids(t, n) \subseteq DOMAIN t.fragments
  BY OneParentEach
<1> QED BY <1>1, <1>2 DEF Subtree

\* Lemma: what is below a fragment stays below it without a fragment whose
\* parent is not, and the root has no parent.
LEMMA EnteredThroughParents ==
  ASSUME NEW t \in FragmentTree, IsLaidOut(t), NEW a \in DOMAIN t.fragments,
         NEW c \in Subtree(t, a), c # a
  PROVE  \E p \in Subtree(t, a) : c \in Kids(t, p)
<1> SUFFICES ASSUME \A p \in Subtree(t, a) : c \notin Kids(t, p) PROVE FALSE
  OBVIOUS
<1> DEFINE S == Subtree(t, a) \ {c}
<1>1. S \in SUBSET DOMAIN t.fragments /\ a \in S
  BY SubtreeIsLeast
<1>2. \A n \in S : Kids(t, n) \subseteq S
  BY SubtreeIsLeast
<1> HIDE DEF S
<1>3. Subtree(t, a) \subseteq S
  BY <1>1, <1>2, SubtreeIsLeast
<1> QED BY <1>3 DEF S

\* Lemma: below a fragment and no child of it is the fragment itself.
LEMMA ChildBelow ==
  ASSUME NEW t \in FragmentTree, IsLaidOut(t), NEW p \in DOMAIN t.fragments, NEW c \in Kids(t, p),
         NEW a \in DOMAIN t.fragments
  PROVE  c \in Subtree(t, a) <=> a = c \/ p \in Subtree(t, a)
<1>1. ASSUME c \in Subtree(t, a), a # c PROVE p \in Subtree(t, a)
  <2>1. PICK q \in Subtree(t, a) : c \in Kids(t, q)
    BY <1>1, EnteredThroughParents
  <2>2. q \in DOMAIN t.fragments
    BY <2>1, SubtreeIsLeast
  <2> QED BY <2>1, <2>2, OneParentEach
<1> QED BY <1>1, SubtreeIsLeast

\* Lemma: nothing but the root is above the root.
LEMMA RootIsOnTop ==
  ASSUME NEW t \in FragmentTree, IsLaidOut(t), NEW a \in DOMAIN t.fragments, a # t.root
  PROVE  t.root \notin Subtree(t, a)
BY EnteredThroughParents, OneParentEach, SubtreeIsLeast

\* Lemma: no fragment is below its child; a ring would hang from no root.
LEMMA NoRing ==
  ASSUME NEW t \in FragmentTree, IsLaidOut(t), NEW p \in DOMAIN t.fragments, NEW c \in Kids(t, p)
  PROVE  p \notin Subtree(t, c)
<1> SUFFICES ASSUME p \in Subtree(t, c) PROVE FALSE
  OBVIOUS
<1> DEFINE Ring == {x \in Subtree(t, c) : p \in Subtree(t, x)}
           Rest == DOMAIN t.fragments \ Ring
<1>1. c \in DOMAIN t.fragments /\ c # t.root /\ t.root \in DOMAIN t.fragments
  BY OneParentEach
<1>2. c \in Ring /\ p \in Ring
  BY <1>1, SubtreeIsLeast
<1>3. t.root \in Rest
  BY <1>1, RootIsOnTop
<1>4. ASSUME NEW n \in Rest, NEW m \in Kids(t, n), m \in Ring PROVE FALSE
  <2>1. m \in DOMAIN t.fragments /\ n \in DOMAIN t.fragments
    BY <1>4, OneParentEach
  <2>2. m # c
    BY <1>2, <1>4, <2>1, OneParentEach
  <2>3. n \in Subtree(t, c)
    BY <1>1, <1>4, <2>1, <2>2, ChildBelow
  <2>4. Subtree(t, m) \subseteq Subtree(t, n)
    BY <1>4, <2>1, SubtreeIsLeast
  <2> QED BY <1>4, <2>3, <2>4
<1>5. \A n \in Rest : Kids(t, n) \subseteq Rest
  BY <1>4, OneParentEach
<1>6. Rest \in SUBSET DOMAIN t.fragments /\ c \notin Rest
  BY <1>2
<1> HIDE DEF Rest
<1>7. Subtree(t, t.root) \subseteq Rest
  BY <1>1, <1>3, <1>5, <1>6, SubtreeIsLeast
<1> QED BY <1>1, <1>6, <1>7 DEF IsLaidOut

\* Lemma: the hidden ancestors of a child are those of its parent, and the
\* parent if it is hidden itself; the root has none.
LEMMA ChildAncestors ==
  ASSUME NEW t \in FragmentTree, IsLaidOut(t)
  PROVE  /\ HiddenAncestors(t, t.root) = {}
         /\ \A p \in DOMAIN t.fragments : \A c \in Kids(t, p) :
              HiddenAncestors(t, c) =
                HiddenAncestors(t, p) \cup (IF t.fragments[p].hidden THEN {p} ELSE {})
<1>1. HiddenAncestors(t, t.root) = {}
  BY RootIsOnTop DEF HiddenAncestors
<1>2. ASSUME NEW p \in DOMAIN t.fragments, NEW c \in Kids(t, p)
      PROVE  HiddenAncestors(t, c) =
               HiddenAncestors(t, p) \cup (IF t.fragments[p].hidden THEN {p} ELSE {})
  <2>1. c # p /\ p \notin Subtree(t, c) /\ p \in Subtree(t, p)
    BY <1>2, NoRing, SubtreeIsLeast, OneParentEach
  <2>2. \A a \in DOMAIN t.fragments : c \in Subtree(t, a) <=> a = c \/ p \in Subtree(t, a)
    BY <1>2, ChildBelow
  <2> QED BY <2>1, <2>2 DEF HiddenAncestors
<1> QED BY <1>1, <1>2
-----------------------------------------------------------------------------
(***************************************************************************)
(* Which clips are open in lists that are put together.                    *)
(***************************************************************************)
\* Lemma: the clips open before an item depend on the items before it alone.
LEMMA OpenOfSame ==
  ASSUME NEW s, NEW q, NEW i, \A j \in 1 .. i - 1 : s[j] = q[j], i \in Int
  PROVE  OpenAt(s, i) = OpenAt(q, i)
<1>1. \A k \in 1 .. i : depth(s, k) = depth(q, k)
  BY DepthOfSame
<1> QED BY <1>1 DEF OpenAt

(* While a fragment's items are emitted the clips open are those that were *)
(* open before; its own comes on top of them, at the depth there was.       *)
OwnClipOnTop(s, new, id, hidden) ==
  /\ \A k \in 1 .. Len(new) : new[k].of = id /\ OpenAt(s \o new, Len(s) + k) = OpenAt(s, Len(s) + 1)
  /\ OpenAt(s \o new, Len(s) + Len(new) + 1) =
       OpenAt(s, Len(s) + 1) \cup (IF hidden THEN {Len(s) + Len(new)} ELSE {})
  /\ hidden => Len(new) > 0 /\ depth(s \o new, Len(s) + Len(new)) = depth(s, Len(s) + 1)

LEMMA VisitOpens ==
  ASSUME NEW s \in Seq(DisplayItem), NEW id \in Nat, NEW f \in Fragment
  PROVE  OwnClipOnTop(s, fragment_items(id, f), id, f.hidden)
<1> DEFINE drawn == paint_fragment(id, f)
           new   == fragment_items(id, f)
           n     == Len(s)
           p     == PushClip(id, clip_rect(f))
<1>1. /\ drawn \in Seq(Drawings) /\ drawn \in Seq(DisplayItem) /\ Len(drawn) \in Nat
      /\ \A k \in 1 .. Len(drawn) + 1 : depth(drawn, k) = 0
      /\ \A k \in 1 .. Len(drawn) : drawn[k].item \notin {"PushClip", "PopClip"}
  <2>1. drawn \in Seq(Drawings)
    BY PaintedAreDrawings
  <2> HIDE DEF drawn
  <2>2. drawn \in Seq(DisplayItem) /\ \A k \in 1 .. Len(drawn) + 1 : depth(drawn, k) = 0
    BY <2>1, DrawingsKeepDepth
  <2>3. \A k \in 1 .. Len(drawn) : drawn[k].item \notin {"PushClip", "PopClip"}
    BY <2>1 DEF Drawings, OfKind
  <2> QED BY <2>1, <2>2, <2>3
<1>2. p \in DisplayItem /\ p.item = "PushClip" /\ p.of = id
  BY ClipRectIsRect DEF PushClip, DisplayItem
<1>3. \A k \in 1 .. Len(drawn) : drawn[k].of = id
  <2>1. drawn \in Seq(DrawnFor(id))
    BY PaintedAreDrawings
  <2> HIDE DEF drawn
  <2> QED BY <2>1 DEF DrawnFor
<1>4. f.hidden \in BOOLEAN /\ n \in Nat
  BY DEF Fragment
<1>5. /\ new \in Seq(DisplayItem)
      /\ Len(new) = IF f.hidden THEN Len(drawn) + 1 ELSE Len(drawn)
      /\ \A k \in 1 .. Len(drawn) : new[k] = drawn[k]
      /\ f.hidden => new[Len(drawn) + 1] = p
  <2>1. CASE f.hidden
    <3>1. fragment_items(id, f) = drawn \o <<p>>
      BY <2>1 DEF fragment_items
    <3> HIDE DEF drawn, p
    <3>2. <<p>> \in Seq(DisplayItem) /\ Len(<<p>>) = 1 /\ <<p>>[1] = p
      BY <1>2
    <3>3. /\ drawn \o <<p>> \in Seq(DisplayItem) /\ Len(drawn \o <<p>>) = Len(drawn) + 1
          /\ \A k \in 1 .. Len(drawn) + 1 :
               (drawn \o <<p>>)[k] = IF k <= Len(drawn) THEN drawn[k] ELSE <<p>>[k - Len(drawn)]
      BY <1>1, <3>2, ConcatProperties
    <3> QED BY <1>1, <2>1, <3>1, <3>2, <3>3
  <2>2. CASE ~ f.hidden
    <3>1. fragment_items(id, f) = drawn \o <<>>
      BY <2>2 DEF fragment_items
    <3>2. drawn \o <<>> = drawn
      BY <1>1, ConcatEmptySeq
    <3> HIDE DEF drawn
    <3> QED BY <1>1, <2>2, <3>1, <3>2
  <2> QED BY <1>4, <2>1, <2>2
<1> HIDE DEF drawn, new, p
<1>6. /\ s \o new \in Seq(DisplayItem) /\ Len(new) \in Nat
      /\ \A i \in 1 .. n + Len(new) : (s \o new)[i] = IF i <= n THEN s[i] ELSE new[i - n]
  BY <1>5, ConcatProperties
<1>7. OpenAt(s \o new, n + 1) = OpenAt(s, n + 1)
  <2>1. ASSUME NEW i, i = n + 1 PROVE OpenAt(s \o new, i) = OpenAt(s, i)
    <3>1. i \in Int /\ \A j \in 1 .. i - 1 : (s \o new)[j] = s[j]
      BY <1>4, <1>6, <2>1
    <3> QED BY <3>1, OpenOfSame
  <2> QED BY <2>1
<1>8. \A k \in 1 .. Len(drawn) + 1 : depth(s \o new, n + k) = depth(s, n + 1)
  <2> TAKE k \in 1 .. Len(drawn) + 1
  <2>1. depth(new, k) = depth(drawn, k)
    <3>1. \A j \in 1 .. k - 1 : new[j] = drawn[j]
      BY <1>1, <1>5
    <3> QED BY <3>1, DepthOfSame
  <2>2. k \in 1 .. Len(new) + 1
    BY <1>1, <1>5
  <2>3. depth(s \o new, n + k) = depth(s, n + 1) + depth(new, k)
    BY <1>5, <2>2, DepthOfBoth
  <2>4. depth(s, n + 1) \in Int
    BY <1>4, DepthStep
  <2> QED BY <1>1, <2>1, <2>3, <2>4
<1>9. ASSUME NEW k \in 1 .. Len(drawn) + 1
      PROVE  OpenAt(s \o new, n + k) = OpenAt(s \o new, n + 1)
  <2>1. \A m \in n + 1 .. n + k : depth(s \o new, m) = depth(s, n + 1)
    <3> TAKE m \in n + 1 .. n + k
    <3>1. m - n \in 1 .. Len(drawn) + 1 /\ m = n + (m - n)
      BY <1>1, <1>4
    <3> QED BY <1>8, <3>1
  <2>2. \A j \in n + 1 .. n + k - 1 : (s \o new)[j].item # "PushClip"
    <3> TAKE j \in n + 1 .. n + k - 1
    <3>1. j - n \in 1 .. Len(drawn) /\ (s \o new)[j] = new[j - n]
      BY <1>1, <1>4, <1>5, <1>6
    <3> QED BY <1>1, <1>5, <3>1
  <2> DEFINE all == s \o new
  <2> HIDE DEF all, n
  <2>3. /\ \A m \in n + 1 .. n + k : depth(all, m) = depth(s, n + 1)
        /\ \A j \in n + 1 .. n + k - 1 : all[j].item # "PushClip"
    BY <2>1, <2>2 DEF all
  <2>4. /\ 1 .. n + k - 1 = (1 .. n) \cup (n + 1 .. n + k - 1)
        /\ \A j \in 1 .. n : /\ j + 1 .. n + k = (j + 1 .. n + 1) \cup (n + 1 .. n + k)
                             /\ n + 1 \in j + 1 .. n + 1
    BY <1>1, <1>4
  <2>5. \A j : j \in OpenAt(all, n + k) <=>
                /\ j \in 1 .. (n + k) - 1 /\ all[j].item = "PushClip"
                /\ \A m \in j + 1 .. n + k : depth(all, m) > depth(all, j)
    <3>1. \A i, j : j \in OpenAt(all, i) <=>
                      /\ j \in 1 .. i - 1 /\ all[j].item = "PushClip"
                      /\ \A m \in j + 1 .. i : depth(all, m) > depth(all, j)
      BY DEF OpenAt
    <3> QED BY <3>1
  <2>6. \A j : j \in OpenAt(all, n + 1) <=>
                /\ j \in 1 .. n /\ all[j].item = "PushClip"
                /\ \A m \in j + 1 .. n + 1 : depth(all, m) > depth(all, j)
    <3>1. 1 .. (n + 1) - 1 = 1 .. n
      BY <1>4
    <3> QED BY <3>1 DEF OpenAt
  <2>7. n + 1 \in n + 1 .. n + k
    BY <1>1, <1>4
  <2>8. \A j \in 1 .. n : (\A m \in j + 1 .. n + k : depth(all, m) > depth(all, j))
                            <=> (\A m \in j + 1 .. n + 1 : depth(all, m) > depth(all, j))
    BY <2>3, <2>4, <2>7
  <2>9. \A j : j \in OpenAt(all, n + k) <=> j \in OpenAt(all, n + 1)
    <3>1. \A j : j \in 1 .. (n + k) - 1 /\ all[j].item = "PushClip"
                   <=> j \in 1 .. n /\ all[j].item = "PushClip"
      <4>1. k \in Int /\ n \in Int /\ k >= 1
        BY <1>1, <1>4
      <4> QED BY <2>3, <4>1
    <3> QED BY <2>5, <2>6, <2>8, <3>1, Zenon
  <2>10. OpenAt(all, n + k) \subseteq OpenAt(all, n + 1) /\ OpenAt(all, n + 1) \subseteq OpenAt(all, n + k)
    BY <2>9
  <2> QED BY <2>10 DEF all
<1>10. \A k \in 1 .. Len(new) : OpenAt(s \o new, n + k) = OpenAt(s, n + 1)
  BY <1>1, <1>4, <1>5, <1>7, <1>9
<1>11. \A k \in 1 .. Len(new) : new[k].of = id
  BY <1>1, <1>2, <1>3, <1>4, <1>5
<1>12. CASE f.hidden
  <2>1. Len(new) = Len(drawn) + 1 /\ (s \o new)[n + Len(new)] = p
    BY <1>1, <1>4, <1>5, <1>6, <1>12
  <2>2. OpenAt(s \o new, n + Len(new) + 1) = OpenAt(s \o new, n + Len(new)) \cup {n + Len(new)}
    <3>1. n + Len(new) \in Nat \ {0} /\ (s \o new)[n + Len(new)].item = "PushClip"
      BY <1>1, <1>2, <1>4, <2>1
    <3> QED BY <3>1, OpenStep
  <2>3. OpenAt(s \o new, n + Len(new)) = OpenAt(s, n + 1)
    BY <1>1, <1>10, <2>1
  <2>4. depth(s \o new, n + Len(new)) = depth(s, n + 1)
    BY <1>1, <1>8, <2>1
  <2> QED BY <1>1, <1>10, <1>11, <1>12, <2>1, <2>2, <2>3, <2>4 DEF OwnClipOnTop, new
<1>13. CASE ~ f.hidden
  <2>1. OpenAt(s \o new, n + Len(new) + 1) = OpenAt(s, n + 1)
    <3>1. n + Len(new) + 1 = n + (Len(drawn) + 1) /\ Len(drawn) + 1 \in 1 .. Len(drawn) + 1
      BY <1>1, <1>4, <1>5, <1>13
    <3> QED BY <1>7, <1>9, <3>1
  <2> QED BY <1>10, <1>11, <1>13, <2>1 DEF OwnClipOnTop, new
<1> QED BY <1>4, <1>12, <1>13
-----------------------------------------------------------------------------
(***************************************************************************)
(* The clips a frame on the stack will be done under.                      *)
(***************************************************************************)
\* The frames from the i-th on that close a clip, and how many they are.
EndsFrom(s, i) == {k \in i .. Len(s) : s[k] \in ClipEnds}
Closing(s, i)  == Cardinality(EndsFrom(s, i))

LEMMA ClosingAtMost ==
  ASSUME NEW s \in Seq(Frame), NEW i \in Nat \ {0}
  PROVE  /\ IsFiniteSet(EndsFrom(s, i)) /\ Closing(s, i) \in Nat
         /\ Closing(s, i) <= Cardinality(Hits(s, ClipEnds))
         /\ (\A k \in 1 .. i - 1 : s[k] \notin ClipEnds) =>
              Closing(s, i) = Cardinality(Hits(s, ClipEnds))
<1>1. IsFiniteSet(Hits(s, ClipEnds))
  BY HitsAreFinite
<1>2. EndsFrom(s, i) \in SUBSET Hits(s, ClipEnds)
  BY DEF EndsFrom, Hits
<1>3. IsFiniteSet(EndsFrom(s, i)) /\ Closing(s, i) <= Cardinality(Hits(s, ClipEnds))
  BY <1>1, <1>2, FS_Subset DEF Closing
<1>4. Closing(s, i) \in Nat
  BY <1>3, FS_CardinalityType DEF Closing
<1>5. ASSUME \A k \in 1 .. i - 1 : s[k] \notin ClipEnds
      PROVE  EndsFrom(s, i) = Hits(s, ClipEnds)
  BY <1>5 DEF EndsFrom, Hits
<1> QED BY <1>3, <1>4, <1>5 DEF Closing

\* Lemma: what comes on top of a frame closes nothing below it.
LEMMA ClosingBelow ==
  ASSUME NEW a \in Seq(Frame), NEW b \in Seq(Frame), NEW m \in Nat \ {0}
  PROVE  Closing(a \o b, Len(a) + m) = Closing(b, m)
<1> DEFINE d     == Len(a)
           moved == {k + d : k \in EndsFrom(b, m)}
<1>1. /\ a \o b \in Seq(Frame) /\ d \in Nat /\ Len(b) \in Nat /\ Len(a \o b) = d + Len(b)
      /\ \A i \in 1 .. d + Len(b) : (a \o b)[i] = IF i <= d THEN a[i] ELSE b[i - d]
  BY ConcatProperties
<1>2. \A k \in EndsFrom(b, m) : k \in Int
  BY DEF EndsFrom
<1>3. EndsFrom(a \o b, d + m) = moved
  <2>1. ASSUME NEW i \in EndsFrom(a \o b, d + m) PROVE i \in moved
    <3>1. i \in d + m .. d + Len(b) /\ (a \o b)[i] \in ClipEnds
      BY <1>1, <2>1 DEF EndsFrom
    <3>2. i - d \in m .. Len(b) /\ (a \o b)[i] = b[i - d] /\ i = (i - d) + d
      BY <1>1, <3>1
    <3>3. i - d \in EndsFrom(b, m)
      BY <3>1, <3>2 DEF EndsFrom
    <3> QED BY <3>2, <3>3
  <2>2. ASSUME NEW k \in EndsFrom(b, m) PROVE k + d \in EndsFrom(a \o b, d + m)
    <3>1. k \in m .. Len(b) /\ b[k] \in ClipEnds
      BY <2>2 DEF EndsFrom
    <3>2. k + d \in d + m .. d + Len(b) /\ (a \o b)[k + d] = b[k]
      BY <1>1, <3>1
    <3> QED BY <1>1, <3>1, <3>2 DEF EndsFrom
  <2> QED BY <2>1, <2>2
<1>4. IsFiniteSet(EndsFrom(b, m))
  BY ClosingAtMost
<1>5. Cardinality({k + d : k \in EndsFrom(b, m)}) = Cardinality(EndsFrom(b, m))
  <2>1. d \in Int
    BY <1>1
  <2> HIDE DEF d
  <2> QED BY ONLY <1>2, <1>4, <2>1, Shifted
<1> QED BY <1>3, <1>5 DEF Closing

LEMMA ClosingOfRest ==
  ASSUME NEW q \in Seq(Frame), q # <<>>, NEW m \in Nat \ {0}
  PROVE  Closing(q, m + 1) = Closing(Tail(q), m)
<1>1. Head(q) \in Frame /\ Tail(q) \in Seq(Frame) /\ <<Head(q)>> \in Seq(Frame) /\ Len(<<Head(q)>>) = 1
  BY HeadTailProperties
<1>2. q = <<Head(q)>> \o Tail(q)
  BY HeadAndRest
<1> DEFINE h == <<Head(q)>>
<1> HIDE DEF h
<1>3. Closing(h \o Tail(q), Len(h) + m) = Closing(Tail(q), m)
  BY <1>1, ClosingBelow DEF h
<1>4. Len(h) + m = m + 1
  BY <1>1 DEF h
<1> QED BY <1>2, <1>3, <1>4 DEF h

\* The fragments whose clips are open at the end of a list and were opened at
\* a depth below d.
OpenBelow(s, d) == {j \in OpenAt(s, Len(s) + 1) : depth(s, j) < d}
Under(s, d)     == {s[j].of : j \in OpenBelow(s, d)}

\* Everything drawn from an item on is under the clips of its ancestors.
DrawnInScope(t, s, from) ==
  \A i \in from .. Len(s) :
    s[i].item # "PopClip" => {s[j].of : j \in OpenAt(s, i)} = HiddenAncestors(t, s[i].of)

\* Once the clips that close before a frame are closed, those of the ancestors
\* of its fragment are the ones still open.
FramesInScope(t, s, frames) ==
  \A i \in DOMAIN frames :
    frames[i].frame = "Fragment" =>
      /\ Resolves(t, frames[i].id)
      /\ Under(s, Closing(frames, i)) = HiddenAncestors(t, frames[i].id)

\* Lemma: at the depth of the list every open clip counts.
LEMMA AllAreUnder ==
  ASSUME NEW s \in Seq(DisplayItem)
  PROVE  OpenBelow(s, depth(s, Len(s) + 1)) = OpenAt(s, Len(s) + 1)
<1>1. Len(s) + 1 \in Nat \ {0}
  OBVIOUS
<1>2. \A j \in OpenAt(s, Len(s) + 1) : depth(s, j) < depth(s, Len(s) + 1)
  BY <1>1, OpenIsBelow
<1> QED BY <1>2 DEF OpenBelow

\* Lemma: later items change nothing for those that are there.
LEMMA DrawnStaysInScope ==
  ASSUME NEW t, NEW s \in Seq(DisplayItem), NEW new \in Seq(DisplayItem), NEW from \in Nat \ {0},
         DrawnInScope(t, s, from),
         \A k \in 1 .. Len(new) : new[k].item # "PopClip" =>
           {(s \o new)[j].of : j \in OpenAt(s \o new, Len(s) + k)} = HiddenAncestors(t, new[k].of)
  PROVE  DrawnInScope(t, s \o new, from)
<1> DEFINE all == s \o new
<1>1. /\ all \in Seq(DisplayItem) /\ Len(s) \in Nat /\ Len(new) \in Nat
      /\ Len(all) = Len(s) + Len(new)
      /\ \A i \in 1 .. Len(s) + Len(new) : all[i] = IF i <= Len(s) THEN s[i] ELSE new[i - Len(s)]
  BY ConcatProperties
<1>2. \A k \in 1 .. Len(new) : new[k].item # "PopClip" =>
        {all[j].of : j \in OpenAt(all, Len(s) + k)} = HiddenAncestors(t, new[k].of)
  OBVIOUS
<1> HIDE DEF all
<1>3. ASSUME NEW i \in from .. Len(s) + Len(new), all[i].item # "PopClip"
      PROVE  {all[j].of : j \in OpenAt(all, i)} = HiddenAncestors(t, all[i].of)
  <2>1. CASE i <= Len(s)
    <3>1. i \in 1 .. Len(s) /\ i \in from .. Len(s) /\ all[i] = s[i]
      BY <1>1, <2>1
    <3>2. \A j \in 1 .. i - 1 : all[j] = s[j]
      BY <1>1, <3>1
    <3>3. OpenAt(all, i) = OpenAt(s, i) /\ OpenAt(s, i) \subseteq 1 .. i - 1
      <4>1. i \in Int
        BY <3>1
      <4>2. OpenAt(all, i) = OpenAt(s, i)
        BY <3>2, <4>1, OpenOfSame
      <4> QED BY <4>2 DEF OpenAt
    <3>4. {all[j].of : j \in OpenAt(all, i)} = {s[j].of : j \in OpenAt(s, i)}
      BY <3>2, <3>3
    <3> QED BY <1>3, <3>1, <3>4 DEF DrawnInScope
  <2>2. CASE ~ (i <= Len(s))
    <3>1. i - Len(s) \in 1 .. Len(new) /\ all[i] = new[i - Len(s)] /\ i = Len(s) + (i - Len(s))
      BY <1>1, <2>2
    <3> QED BY <1>2, <1>3, <3>1
  <2> QED BY <2>1, <2>2
<1>4. DrawnInScope(t, all, from)
  BY <1>1, <1>3 DEF DrawnInScope
<1> QED BY <1>4 DEF all

\* Lemma: a fragment's frames are those of its children, then the end of its clip.
LEMMA PendingAre ==
  ASSUME NEW f \in Fragment
  PROVE  LET pending == pending_frames(f)
             kids    == Len(f.children)
         IN  /\ kids \in Nat /\ kids <= Len(pending)
             /\ \A i \in 1 .. kids : pending[i] = FragmentFrame(f.children[i])
             /\ \A i \in 1 .. Len(pending) : i > kids => pending[i] = PopClipFrame
<1> DEFINE pending == pending_frames(f)
           kids  == Len(f.children)
           below == [i \in DOMAIN f.children |-> FragmentFrame(f.children[i])]
           close == IF f.hidden THEN <<PopClipFrame>> ELSE <<>>
<1>1. pending = below \o close
  BY DEF pending_frames
<1>2. f.children \in Seq(Nat) /\ f.hidden \in BOOLEAN /\ DOMAIN f.children = 1 .. kids /\ kids \in Nat
  BY DEF Fragment
<1>3. below = [i \in 1 .. kids |-> FragmentFrame(f.children[i])]
  BY <1>2
<1> HIDE DEF below, kids, pending
<1>4. /\ below \in Seq(Frame) /\ Len(below) = kids
      /\ \A i \in 1 .. kids : below[i] = FragmentFrame(f.children[i])
  <2>1. \A i \in 1 .. kids : FragmentFrame(f.children[i]) \in Frame
    BY <1>2 DEF Frame, FragmentFrame
  <2> QED BY <1>2, <1>3, <2>1
<1>5. /\ close \in Seq(Frame) /\ Len(close) \in {0, 1}
      /\ \A i \in 1 .. Len(close) : close[i] = PopClipFrame
  <2>1. PopClipFrame \in Frame
    BY DEF Frame
  <2>2. close = <<PopClipFrame>> \/ close = <<>>
    OBVIOUS
  <2> HIDE DEF close
  <2>3. CASE close = <<PopClipFrame>>
    BY <2>1, <2>3
  <2>4. CASE close = <<>>
    BY <2>4
  <2> QED BY <2>2, <2>3, <2>4
<1> HIDE DEF close
<1>6. /\ Len(below \o close) = Len(below) + Len(close)
      /\ \A i \in 1 .. Len(below) + Len(close) :
           (below \o close)[i] = IF i <= Len(below) THEN below[i] ELSE close[i - Len(below)]
  BY <1>4, <1>5, ConcatProperties
<1>7. \A i \in 1 .. Len(pending) : i > kids => i - kids \in 1 .. Len(close)
  BY <1>1, <1>2, <1>4, <1>5, <1>6
<1>8. /\ kids <= Len(pending) /\ \A i \in 1 .. kids : pending[i] = FragmentFrame(f.children[i])
  BY <1>1, <1>2, <1>4, <1>5, <1>6
<1>9. \A i \in 1 .. Len(pending) : i > kids => pending[i] = PopClipFrame
  BY <1>1, <1>2, <1>4, <1>5, <1>6, <1>7
<1> QED BY <1>2, <1>8, <1>9 DEF pending, kids

(* Visiting a fragment: it is drawn under the clips that were open, and its *)
(* children will be under those and its own.                                *)
LEMMA VisitKeepsScope ==
  ASSUME NEW t \in FragmentTree, IsLaidOut(t), NEW s \in Seq(DisplayItem), NEW q \in Seq(Frame),
         q # <<>>, NEW id \in DOMAIN t.fragments, Head(q) = FragmentFrame(id),
         NEW f \in Fragment, f = t.fragments[id],
         NEW new, new = fragment_items(id, f), NEW pending, pending = pending_frames(f),
         depth(s, Len(s) + 1) = Cardinality(Hits(q, ClipEnds)),
         depth(s \o new, Len(s \o new) + 1) = Cardinality(Hits(pending \o Tail(q), ClipEnds)),
         NEW from \in Nat \ {0}, DrawnInScope(t, s, from), FramesInScope(t, s, q)
  PROVE  DrawnInScope(t, s \o new, from) /\ FramesInScope(t, s \o new, pending \o Tail(q))
<1> DEFINE all  == s \o new
           todo == pending \o Tail(q)
           d    == depth(s, Len(s) + 1)
           open == OpenAt(s, Len(s) + 1)
           kids == Len(f.children)
<1>1. id \in Nat /\ f.hidden \in BOOLEAN /\ f.children \in Seq(Nat)
  <2>1. t.fragments \in Seq(Fragment)
    BY DEF FragmentTree
  <2>2. id \in Nat
    BY <2>1
  <2>3. f.hidden \in BOOLEAN /\ f.children \in Seq(Nat)
    BY ONLY f \in Fragment DEF Fragment
  <2> QED BY <2>2, <2>3
<1>2. new \in Seq(DisplayItem) /\ pending \in Seq(Frame)
  BY <1>1, FragmentOpensItsClip, FragmentPushesItsEnd
<1>3. /\ \A k \in 1 .. Len(new) : OpenAt(all, Len(s) + k) = open /\ new[k].of = id
      /\ OpenAt(all, Len(s) + Len(new) + 1) = open \cup (IF f.hidden THEN {Len(s) + Len(new)} ELSE {})
      /\ f.hidden => Len(new) > 0 /\ depth(all, Len(s) + Len(new)) = d
  <2>1. OwnClipOnTop(s, new, id, f.hidden)
    BY <1>1, VisitOpens
  <2> QED BY <2>1 DEF OwnClipOnTop
<1>4. /\ all \in Seq(DisplayItem) /\ Len(s) \in Nat /\ Len(new) \in Nat
      /\ Len(all) = Len(s) + Len(new)
      /\ \A i \in 1 .. Len(s) + Len(new) : all[i] = IF i <= Len(s) THEN s[i] ELSE new[i - Len(s)]
  BY <1>2, ConcatProperties
<1>5. /\ Head(q) \in Frame /\ Tail(q) \in Seq(Frame) /\ Len(Tail(q)) \in Nat
      /\ Len(q) = Len(Tail(q)) + 1 /\ q[1] = Head(q)
      /\ \A m \in 1 .. Len(Tail(q)) : Tail(q)[m] = q[m + 1]
  BY HeadTailProperties, EmptySeq, LenProperties
<1>6. Head(q).frame = "Fragment" /\ Head(q).id = id /\ Head(q) \notin ClipEnds
  BY DEF FragmentFrame, ClipEnds
<1>7. /\ todo \in Seq(Frame) /\ Len(pending) \in Nat /\ Len(todo) = Len(pending) + Len(Tail(q))
      /\ \A i \in 1 .. Len(pending) + Len(Tail(q)) :
           todo[i] = IF i <= Len(pending) THEN pending[i] ELSE Tail(q)[i - Len(pending)]
  BY <1>2, <1>5, ConcatProperties
<1>8. /\ kids \in Nat /\ kids <= Len(pending)
      /\ \A i \in 1 .. kids : pending[i] = FragmentFrame(f.children[i])
      /\ \A i \in 1 .. Len(pending) : i > kids => pending[i] = PopClipFrame
  BY PendingAre
<1> HIDE DEF all, todo, d, open, kids
<1>9. open \subseteq 1 .. Len(s) /\ \A j \in open : all[j].of = s[j].of /\ depth(all, j) = depth(s, j)
  <2>1. ASSUME NEW j \in open PROVE j \in 1 .. Len(s) /\ all[j].of = s[j].of /\ depth(all, j) = depth(s, j)
    <3>1. j \in 1 .. Len(s)
      BY <1>4, <2>1 DEF open, OpenAt
    <3>2. \A k \in 1 .. j - 1 : all[k] = s[k]
      <4> TAKE k \in 1 .. j - 1
      <4>1. k \in 1 .. Len(s) + Len(new) /\ k <= Len(s)
        BY <1>4, <3>1
      <4> QED BY <1>4, <4>1
    <3> QED BY <1>4, <3>1, <3>2, DepthOfSame
  <2> QED BY <2>1
<1>10. {s[j].of : j \in open} = HiddenAncestors(t, id)
  <2>1. 1 \in DOMAIN q /\ q[1].frame = "Fragment" /\ q[1].id = id
    BY <1>5, <1>6
  <2>2. Under(s, Closing(q, 1)) = HiddenAncestors(t, id)
    BY <2>1 DEF FramesInScope
  <2>3. Closing(q, 1) = d
    <3>1. ASSUME NEW i, i = 1 PROVE Closing(q, i) = Cardinality(Hits(q, ClipEnds))
      BY <3>1, ClosingAtMost
    <3> QED BY <3>1 DEF d
  <2>4. OpenBelow(s, d) = open
    BY AllAreUnder DEF d, open
  <2> QED BY <2>2, <2>3, <2>4 DEF Under
<1>11. DrawnInScope(t, all, from)
  <2>1. ASSUME NEW k \in 1 .. Len(new)
        PROVE  {all[j].of : j \in OpenAt(all, Len(s) + k)} = HiddenAncestors(t, new[k].of)
    <3>1. {all[j].of : j \in open} = {s[j].of : j \in open}
      BY <1>9
    <3> QED BY <1>3, <1>10, <3>1
  <2>2. \A k \in 1 .. Len(new) : new[k].item # "PopClip" =>
          {(s \o new)[j].of : j \in OpenAt(s \o new, Len(s) + k)} = HiddenAncestors(t, new[k].of)
    BY <2>1 DEF all
  <2> QED BY <1>2, <2>2, DrawnStaysInScope DEF all
<1>12. /\ OpenBelow(all, depth(all, Len(all) + 1)) = OpenAt(all, Len(all) + 1)
       /\ {all[j].of : j \in OpenAt(all, Len(all) + 1)}
            = HiddenAncestors(t, id) \cup (IF f.hidden THEN {id} ELSE {})
  <2>1. OpenBelow(all, depth(all, Len(all) + 1)) = OpenAt(all, Len(all) + 1)
    BY <1>4, AllAreUnder
  <2>2. OpenAt(all, Len(all) + 1) = open \cup (IF f.hidden THEN {Len(all)} ELSE {})
    BY <1>3, <1>4
  <2>3. f.hidden => all[Len(all)].of = id
    <3> SUFFICES ASSUME f.hidden PROVE all[Len(all)].of = id
      OBVIOUS
    <3>1. /\ Len(new) > 0 /\ Len(all) \in 1 .. Len(s) + Len(new) /\ ~ (Len(all) <= Len(s))
          /\ Len(all) - Len(s) = Len(new) /\ Len(new) \in 1 .. Len(new)
      BY <1>3, <1>4
    <3>2. all[Len(all)] = new[Len(new)]
      BY <1>4, <3>1
    <3> QED BY <1>3, <3>1, <3>2
  <2>4. {all[j].of : j \in open} = HiddenAncestors(t, id)
    BY <1>9, <1>10
  <2> QED BY <2>1, <2>2, <2>3, <2>4
<1>13. ASSUME NEW i \in 1 .. kids
       PROVE  /\ Resolves(t, todo[i].id)
              /\ Under(all, Closing(todo, i)) = HiddenAncestors(t, todo[i].id)
  <2>1. i \in 1 .. Len(pending) /\ i \in Nat \ {0} /\ todo[i] = FragmentFrame(f.children[i])
    BY <1>5, <1>7, <1>8
  <2>2. f.children[i] \in Kids(t, id)
    <3>1. i \in DOMAIN f.children
      BY <1>1 DEF kids
    <3> QED BY <3>1 DEF Kids, ToSet
  <2>3. Closing(todo, i) = depth(all, Len(all) + 1)
    <3>1. \A k \in 1 .. i - 1 : todo[k] \notin ClipEnds
      <4> TAKE k \in 1 .. i - 1
      <4>1. todo[k] = FragmentFrame(f.children[k])
        <5>1. kids \in Nat
          BY <1>1, LenProperties DEF kids
        <5>2. k \in 1 .. kids
          BY ONLY <5>1, i \in 1 .. kids, k \in 1 .. i - 1, SMT
        <5> QED BY <1>5, <1>7, <1>8, <5>2
      <4> QED BY <4>1 DEF FragmentFrame, ClipEnds
    <3>2. depth(all, Len(all) + 1) = Cardinality(Hits(todo, ClipEnds))
      BY DEF all, todo
    <3> QED BY <1>7, <2>1, <3>1, <3>2, ClosingAtMost
  <2>4. HiddenAncestors(t, f.children[i]) = HiddenAncestors(t, id) \cup (IF f.hidden THEN {id} ELSE {})
    BY <2>2, ChildAncestors
  <2>5. f.children[i] \in DOMAIN t.fragments
    BY <2>2, OneParentEach
  <2> QED BY <1>12, <2>1, <2>3, <2>4, <2>5 DEF Under, FragmentFrame, Resolves
<1>14. ASSUME NEW m \in 1 .. Len(Tail(q)), todo[Len(pending) + m].frame = "Fragment"
       PROVE  /\ Resolves(t, todo[Len(pending) + m].id)
              /\ Under(all, Closing(todo, Len(pending) + m))
                   = HiddenAncestors(t, todo[Len(pending) + m].id)
  <2>1. todo[Len(pending) + m] = q[m + 1] /\ m + 1 \in DOMAIN q /\ m \in Nat \ {0}
    <3>1. Len(pending) + m \in 1 .. Len(pending) + Len(Tail(q)) /\ ~ (Len(pending) + m <= Len(pending))
          /\ (Len(pending) + m) - Len(pending) = m
      BY <1>5, <1>7
    <3>2. todo[Len(pending) + m] = Tail(q)[m]
      BY <1>7, <3>1
    <3>3. DOMAIN q = 1 .. Len(q)
      BY LenProperties
    <3> QED BY <1>5, <3>2, <3>3
  <2>2. /\ Resolves(t, q[m + 1].id)
        /\ Under(s, Closing(q, m + 1)) = HiddenAncestors(t, q[m + 1].id)
    BY <1>14, <2>1 DEF FramesInScope
  <2>3. Closing(todo, Len(pending) + m) = Closing(Tail(q), m)
    BY <1>2, <1>5, <2>1, ClosingBelow DEF todo
  <2>4. Closing(q, m + 1) = Closing(Tail(q), m)
    BY <2>1, ClosingOfRest
  <2>5. Closing(q, m + 1) \in Nat /\ Closing(q, m + 1) <= d
    <3>1. m + 1 \in Nat \ {0}
      BY <2>1
    <3> QED BY <3>1, ClosingAtMost DEF d
  <2> DEFINE c == Closing(q, m + 1)
  <2> HIDE DEF c
  <2>6. c \in Nat /\ c <= d /\ d \in Int
    <3>1. d \in Int
      BY <1>4, DepthStep DEF d
    <3> QED BY <2>5, <3>1 DEF c
  <2>7. OpenBelow(all, c) = OpenBelow(s, c)
    <3>1. OpenAt(all, Len(all) + 1) = open \cup (IF f.hidden THEN {Len(all)} ELSE {})
      BY <1>3, <1>4
    <3>2. f.hidden => depth(all, Len(all)) = d
      BY <1>3, <1>4
    <3>3. \A j \in open : depth(all, j) = depth(s, j)
      BY <1>9
    <3> QED BY <2>6, <3>1, <3>2, <3>3 DEF OpenBelow, open
  <2>8. Under(all, c) = Under(s, c)
    <3>1. OpenBelow(s, c) \subseteq open
      BY DEF OpenBelow, open
    <3> QED BY <1>9, <2>7, <3>1 DEF Under
  <2> QED BY <2>1, <2>2, <2>3, <2>4, <2>8 DEF c
<1>15. FramesInScope(t, all, todo)
  <2>1. ASSUME NEW i \in DOMAIN todo, todo[i].frame = "Fragment"
        PROVE  /\ Resolves(t, todo[i].id)
               /\ Under(all, Closing(todo, i)) = HiddenAncestors(t, todo[i].id)
    <3>1. i \in 1 .. Len(pending) + Len(Tail(q))
      BY <1>7
    <3>2. CASE i <= kids
      BY <1>8, <1>13, <3>1, <3>2
    <3>3. CASE i > kids /\ i <= Len(pending)
      BY <1>7, <1>8, <2>1, <3>1, <3>3 DEF PopClipFrame
    <3>4. CASE i > Len(pending)
      <4>1. i - Len(pending) \in 1 .. Len(Tail(q)) /\ i = Len(pending) + (i - Len(pending))
        BY <1>5, <1>7, <3>1, <3>4
      <4> QED BY <1>14, <2>1, <4>1
    <3> QED BY <1>7, <1>8, <3>1, <3>2, <3>3, <3>4
  <2> QED BY <2>1 DEF FramesInScope
<1> QED BY <1>11, <1>15 DEF all, todo

\* Lemma: closing a clip leaves the frames below under the clips they were under.
LEMMA CloseKeepsScope ==
  ASSUME NEW t, NEW s \in Seq(DisplayItem), NEW q \in Seq(Frame), q # <<>>, Head(q) \in ClipEnds,
         depth(s, Len(s) + 1) = Cardinality(Hits(q, ClipEnds)),
         NEW from \in Nat \ {0}, DrawnInScope(t, s, from), FramesInScope(t, s, q)
  PROVE  /\ DrawnInScope(t, Append(s, PopClip), from)
         /\ FramesInScope(t, Append(s, PopClip), Tail(q))
<1> DEFINE all == Append(s, PopClip)
           n   == Len(s) + 1
           d   == depth(s, n)
<1>1. /\ all \in Seq(DisplayItem) /\ Len(all) = n /\ n \in Nat \ {0}
      /\ all[n].item = "PopClip" /\ \A j \in 1 .. n - 1 : all[j] = s[j]
  <2>1. PopClip \in DisplayItem
    BY DEF DisplayItem
  <2> QED BY <2>1, AppendProperties DEF PopClip
<1>2. DrawnInScope(t, all, from)
  <2>1. \A i \in from .. Len(all) : all[i].item # "PopClip" => i \in from .. Len(s)
    BY <1>1
  <2>2. ASSUME NEW i \in from .. Len(s)
        PROVE  /\ all[i] = s[i] /\ OpenAt(all, i) = OpenAt(s, i) /\ OpenAt(s, i) \subseteq 1 .. i - 1
               /\ {all[j].of : j \in OpenAt(all, i)} = {s[j].of : j \in OpenAt(s, i)}
    <3>1. i \in Int /\ all[i] = s[i] /\ \A j \in 1 .. i - 1 : all[j] = s[j]
      BY <1>1
    <3> HIDE DEF all
    <3>2. OpenAt(all, i) = OpenAt(s, i)
      BY <3>1, OpenOfSame
    <3>3. OpenAt(s, i) \subseteq 1 .. i - 1
      BY DEF OpenAt
    <3> QED BY <3>1, <3>2, <3>3
  <2> HIDE DEF all
  <2> QED BY <2>1, <2>2 DEF DrawnInScope
<1> HIDE DEF all, n, d
<1>3. OpenAt(all, n) = OpenAt(s, n) /\ depth(all, n) = d /\ d \in Int
  <2>1. OpenAt(all, n) = OpenAt(s, n)
    BY <1>1, OpenOfSame
  <2>2. depth(all, n) = depth(s, n)
    BY <1>1, DepthOfSame
  <2> QED BY <1>1, <2>1, <2>2, DepthStep DEF d
<1>4. \A j \in OpenAt(s, n) : depth(all, j) = depth(s, j) /\ all[j].of = s[j].of
  <2> TAKE j \in OpenAt(s, n)
  <2>1. j \in 1 .. n - 1
    BY DEF OpenAt
  <2>2. \A k \in 1 .. j - 1 : all[k] = s[k]
    BY <1>1, <2>1
  <2> QED BY <1>1, <2>1, <2>2, DepthOfSame
<1>5. OpenAt(all, n + 1) = {j \in OpenAt(all, n) : depth(all, j) < d - 1}
  BY <1>1, <1>3, OpenStep
<1>6. ASSUME NEW c \in Int, c <= d - 1 PROVE Under(all, c) = Under(s, c)
  <2>1. OpenBelow(all, c) = {j \in OpenAt(all, n + 1) : depth(all, j) < c}
    BY <1>1 DEF OpenBelow
  <2>2. OpenBelow(s, c) = {j \in OpenAt(s, n) : depth(s, j) < c}
    BY DEF OpenBelow, n
  <2>3. \A j \in OpenAt(s, n) : depth(s, j) \in Int
    <3> TAKE j \in OpenAt(s, n)
    <3>1. j \in Nat \ {0}
      BY DEF OpenAt
    <3> QED BY <3>1, DepthStep
  <2>4. OpenBelow(all, c) = OpenBelow(s, c)
    BY <1>3, <1>4, <1>5, <1>6, <2>1, <2>2, <2>3
  <2> QED BY <1>4, <2>2, <2>4 DEF Under
<1>7. /\ Tail(q) \in Seq(Frame) /\ Len(q) = Len(Tail(q)) + 1 /\ DOMAIN q = 1 .. Len(q)
      /\ DOMAIN Tail(q) = 1 .. Len(Tail(q)) /\ Len(Tail(q)) \in Nat
      /\ \A m \in 1 .. Len(Tail(q)) : Tail(q)[m] = q[m + 1]
  BY HeadTailProperties, EmptySeq, LenProperties
<1>8. Cardinality(Hits(Tail(q), ClipEnds)) = d - 1
  <2>1. Cardinality(Hits(q, ClipEnds)) = Cardinality(Hits(Tail(q), ClipEnds)) + 1
    BY HitsOfRest
  <2>2. Cardinality(Hits(Tail(q), ClipEnds)) \in Nat
    BY <1>7, HitsAreFinite
  <2> QED BY <2>1, <2>2 DEF d, n
<1>9. ASSUME NEW m \in DOMAIN Tail(q), Tail(q)[m].frame = "Fragment"
      PROVE  /\ Resolves(t, Tail(q)[m].id)
             /\ Under(all, Closing(Tail(q), m)) = HiddenAncestors(t, Tail(q)[m].id)
  <2>1. m \in Nat \ {0} /\ m + 1 \in DOMAIN q /\ Tail(q)[m] = q[m + 1]
    BY <1>7
  <2>2. /\ Resolves(t, q[m + 1].id)
        /\ Under(s, Closing(q, m + 1)) = HiddenAncestors(t, q[m + 1].id)
    BY <1>9, <2>1 DEF FramesInScope
  <2>3. Closing(q, m + 1) = Closing(Tail(q), m)
    BY <2>1, ClosingOfRest
  <2>4. Closing(Tail(q), m) \in Int /\ Closing(Tail(q), m) <= d - 1
    <3>1. /\ Closing(Tail(q), m) \in Nat
          /\ Closing(Tail(q), m) <= Cardinality(Hits(Tail(q), ClipEnds))
      BY <1>7, <2>1, ClosingAtMost
    <3> QED BY <1>8, <3>1
  <2> QED BY <1>6, <2>1, <2>2, <2>3, <2>4
<1>10. FramesInScope(t, all, Tail(q))
  BY <1>9 DEF FramesInScope
<1> QED BY <1>2, <1>10 DEF all
-----------------------------------------------------------------------------
(* In a tree as layout builds it, what is drawn so far and what is still on *)
(* the stack are under the clips of their hidden ancestors.                 *)
ScopeInv ==
  IsLaidOut(tree) =>
    /\ DrawnInScope(tree, items, Len(canvas_items(canvas)) + 1)
    /\ FramesInScope(tree, items, stack)

LEMMA ScopeStarts == BuildInit => ScopeInv
<1> SUFFICES ASSUME BuildInit, IsLaidOut(tree)
             PROVE  /\ DrawnInScope(tree, items, Len(canvas_items(canvas)) + 1)
                    /\ FramesInScope(tree, items, stack)
  BY DEF ScopeInv
<1>1. WalkInv
  BY WalkStarts
<1>2. tree \in FragmentTree /\ items \in Seq(DisplayItem)
  BY <1>1 DEF WalkInv, Shape
<1>3. DrawnInScope(tree, items, Len(canvas_items(canvas)) + 1)
  BY <1>2 DEF BuildInit, DrawnInScope
<1>4. /\ DOMAIN stack = {1} /\ stack[1].frame = "Fragment" /\ stack[1].id = tree.root
      /\ depth(items, Len(items) + 1) = 0
  <2>1. DOMAIN stack = {1} /\ stack[1] = FragmentFrame(tree.root)
    BY DEF BuildInit
  <2>2. Hits(stack, ClipEnds) = {}
    BY <2>1 DEF Hits, ClipEnds, FragmentFrame
  <2> QED BY <1>1, <2>1, <2>2, FS_EmptySet DEF WalkInv, FragmentFrame
<1>5. Under(items, Closing(stack, 1)) = {}
  <2>1. ASSUME NEW i, i = 1 PROVE Closing(stack, i) = 0
    <3>1. stack \in Seq(Frame) /\ Cardinality(Hits(stack, ClipEnds)) = 0
      BY <1>1, <1>4 DEF WalkInv, Shape
    <3>2. Closing(stack, i) \in Nat /\ Closing(stack, i) <= 0
      BY <2>1, <3>1, ClosingAtMost
    <3> QED BY <3>2
  <2>2. OpenBelow(items, depth(items, Len(items) + 1)) = OpenAt(items, Len(items) + 1)
    BY <1>2, AllAreUnder
  <2>3. OpenAt(items, Len(items) + 1) = {}
    <3>1. items = canvas_items(canvas)
      BY DEF BuildInit
    <3>2. \A j \in 1 .. Len(items) : items[j].item # "PushClip"
      <4>1. canvas \in Nat
        BY <1>2, CanvasComesFromTree DEF BuildInit
      <4>2. items \in Seq(Drawings)
        BY <3>1, <4>1, CanvasItems
      <4> QED BY <4>2 DEF Drawings, OfKind
    <3>3. (Len(items) + 1) - 1 = Len(items)
      BY <1>2
    <3> QED BY <3>2, <3>3 DEF OpenAt
  <2> QED BY <1>4, <2>1, <2>2, <2>3 DEF Under
<1>6. HiddenAncestors(tree, tree.root) = {} /\ Resolves(tree, tree.root)
  BY <1>2, ChildAncestors DEF IsLaidOut
<1>7. FramesInScope(tree, items, stack)
  BY <1>4, <1>5, <1>6 DEF FramesInScope
<1> QED BY <1>3, <1>7

LEMMA ScopeKept == WalkInv /\ ScopeInv /\ [Walk]_buildVars => ScopeInv'
<1> SUFFICES ASSUME WalkInv, ScopeInv, [Walk]_buildVars, tree' = tree, canvas' = canvas, IsLaidOut(tree)
             PROVE  /\ DrawnInScope(tree, items', Len(canvas_items(canvas)) + 1)
                    /\ FramesInScope(tree, items', stack')
  <2>1. [Walk]_buildVars => tree' = tree /\ canvas' = canvas
    BY DEF Walk, VisitFragment, SkipDangling, CloseClip, StopWalk, EndWalk, buildVars
  <2>2. tree' = tree => (IsLaidOut(tree)' <=> IsLaidOut(tree))
    BY DEF IsLaidOut, Resolves, Subtree, ChildClosed
  <2>3. tree' = tree /\ canvas' = canvas =>
          /\ DrawnInScope(tree, items, Len(canvas_items(canvas)) + 1)'
               <=> DrawnInScope(tree, items', Len(canvas_items(canvas)) + 1)
          /\ FramesInScope(tree, items, stack)' <=> FramesInScope(tree, items', stack')
    OBVIOUS
  <2> QED BY <2>1, <2>2, <2>3 DEF ScopeInv
<1>1. /\ tree \in FragmentTree /\ stack \in Seq(Frame) /\ items \in Seq(DisplayItem)
      /\ depth(items, Len(items) + 1) = Cardinality(Hits(stack, ClipEnds))
  BY DEF WalkInv, Shape
<1> DEFINE from == Len(canvas_items(canvas)) + 1
<1>2. /\ DrawnInScope(tree, items, from) /\ FramesInScope(tree, items, stack)
      /\ from \in Nat \ {0}
  <2>1. Len(canvas_items(canvas)) \in Nat
    BY DEF canvas_items
  <2> QED BY <2>1 DEF ScopeInv
<1> HIDE DEF from
<1>3. CASE VisitFragment
  <2> DEFINE id == Head(stack).id
             f  == tree.fragments[id]
  <2>1. /\ id \in DOMAIN tree.fragments /\ Head(stack).frame = "Fragment" /\ stack # <<>>
        /\ items' = items \o fragment_items(id, f)
        /\ stack' = pending_frames(f) \o Tail(stack)
    BY <1>3 DEF VisitFragment, NextFrame, Resolves
  <2>2. Head(stack) = FragmentFrame(id) /\ f \in Fragment
    <3>1. Head(stack) \in Frame
      BY <1>1, <2>1, HitsOfRest
    <3>2. f \in Fragment
      <4>1. tree \in FragmentTree
        BY <1>1
      <4>2. tree.fragments \in Seq(Fragment)
        BY ONLY <4>1 DEF FragmentTree
      <4>3. ASSUME NEW s \in Seq(Fragment), NEW j \in DOMAIN s PROVE s[j] \in Fragment
        BY ONLY <4>3
      <4> QED BY <2>1, <4>2, <4>3
    <3>3. ASSUME NEW x \in Frame, x.frame = "Fragment" PROVE x = FragmentFrame(x.id)
      <4>1. x \in [frame : {"Fragment"}, id : Nat] \/ x = [frame |-> "PopClip"]
        BY DEF Frame, PopClipFrame
      <4> QED BY ONLY <3>3, <4>1 DEF FragmentFrame
    <3>4. Head(stack) = FragmentFrame(Head(stack).id)
      BY ONLY <2>1, <3>1, <3>3
    <3> QED BY <3>2, <3>4
  <2>3. depth(items', Len(items') + 1) = Cardinality(Hits(stack', ClipEnds))
    BY WalkKept DEF WalkInv
  <2> HIDE DEF id, f
  <2> DEFINE new     == fragment_items(id, f)
             pending == pending_frames(f)
  <2>4. f = tree.fragments[id] /\ new = fragment_items(id, f) /\ pending = pending_frames(f)
        /\ items' = items \o new /\ stack' = pending \o Tail(stack)
    BY <2>1 DEF f
  <2> HIDE DEF new, pending
  <2>5. depth(items \o new, Len(items \o new) + 1) = Cardinality(Hits(pending \o Tail(stack), ClipEnds))
    BY <2>3, <2>4
  <2>6. DrawnInScope(tree, items \o new, from) /\ FramesInScope(tree, items \o new, pending \o Tail(stack))
    BY <1>1, <1>2, <2>1, <2>2, <2>4, <2>5, VisitKeepsScope
  <2> QED BY <2>4, <2>6 DEF from
<1>4. CASE SkipDangling
  <2>1. 1 \in DOMAIN stack /\ stack[1] = Head(stack) /\ Head(stack).frame = "Fragment"
        /\ ~ Resolves(tree, Head(stack).id)
    BY <1>1, <1>4, HeadTailProperties, LenProperties, EmptySeq DEF SkipDangling, NextFrame
  <2> QED BY <1>2, <2>1 DEF FramesInScope
<1>5. CASE CloseClip
  <2>1. /\ Head(stack) \in ClipEnds /\ stack # <<>> /\ stack' = Tail(stack)
        /\ items' = Append(items, PopClip)
    <3>1. stack # <<>> /\ Head(stack).frame = "PopClip"
      BY <1>5 DEF CloseClip, NextFrame
    <3>2. Head(stack) \in Frame
      BY <1>1, <3>1, HitsOfRest
    <3> QED BY <1>5, <3>1, <3>2 DEF CloseClip, ClipEnds
  <2>2. /\ DrawnInScope(tree, Append(items, PopClip), from)
        /\ FramesInScope(tree, Append(items, PopClip), Tail(stack))
    BY <1>1, <1>2, <2>1, CloseKeepsScope
  <2> QED BY <2>1, <2>2 DEF from
<1>6. CASE StopWalk
  <2> DEFINE new == drain_pending_pop_clips(stack)
  <2>1. /\ items' = items \o new /\ stack' = <<>> /\ new \in Seq(DisplayItem)
        /\ \A k \in 1 .. Len(new) : new[k].item = "PopClip"
    <3>1. new \in Seq(DisplayItem) /\ \A k \in DOMAIN new : new[k] = PopClip
      BY DrainedClips
    <3> QED BY <1>6, <3>1 DEF StopWalk, PopClip
  <2> HIDE DEF new
  <2>2. DrawnInScope(tree, items \o new, from)
    BY <1>1, <1>2, <2>1, DrawnStaysInScope
  <2>3. FramesInScope(tree, items', <<>>)
    BY DEF FramesInScope
  <2> QED BY <2>1, <2>2, <2>3 DEF from
<1>7. CASE EndWalk \/ UNCHANGED buildVars
  <2>1. items' = items /\ stack' = stack
    BY <1>7 DEF EndWalk, buildVars
  <2> QED BY <1>2, <2>1 DEF from
<1> QED BY <1>3, <1>4, <1>5, <1>6, <1>7 DEF Walk

(* In a laid-out tree every fragment is drawn under the clips of exactly    *)
(* its hidden ancestors, however deep the tree and wherever its fragments   *)
(* lie: a clip is closed after the last descendant and before the next      *)
(* sibling.                                                                 *)
THEOREM ClipsAreScoped == BuildSpec => []ClipScope
<1>1. WalkInv /\ ScopeInv => ClipScope
  BY DEF ScopeInv, DrawnInScope, ClipScope
<1> QED BY <1>1, ScopeStarts, ScopeKept, WalkInvariance, PTL DEF BuildSpec
-----------------------------------------------------------------------------
(***************************************************************************)
(* The builder and the validator judge the same items fit.                 *)
(***************************************************************************)
\* What layout gives: boxes inside Au that hold their borders, runs of a
\* length validate allows with every glyph inside Au.
DrawableFragment(f) ==
  /\ rect_is_valid(f.border_box)
  /\ \A side \in 1 .. 2 : f.border[side] <= f.border_box.size
  /\ \A i \in DOMAIN f.runs :
       /\ Len(f.runs[i].glyphs) <= MAX_GLYPHS_PER_RUN
       /\ \A g \in DOMAIN f.runs[i].glyphs : checked_add_fits(f.runs[i].origin, f.runs[i].glyphs[g].x)
Drawable(t) == \A id \in DOMAIN t.fragments : DrawableFragment(t.fragments[id])

\* Items that validate passes, but for the order and the depth of clips.
Acceptable ==
  {x \in DisplayItem :
     /\ x.item \in {"Rect", "PushClip"} => check_rect(x.rect, Region) = "Ok"
     /\ x.item = "Border" => check_border(x.rect, x.widths, Region) = "Ok"
     /\ x.item = "Text" => check_text_run(x.run, Region) = "Ok"}

LEMMA PaintedIsAcceptable ==
  ASSUME NEW id \in Nat, NEW f \in Fragment, DrawableFragment(f)
  PROVE  paint_fragment(id, f) \in Seq(Acceptable)
<1>1. ASSUME intersects_rect(Region, f.border_box) PROVE paint_block(id, f) \in Seq(Acceptable)
  <2>1. /\ f.border_box \in Rect /\ f.border_box.size \in Int
        /\ \A side \in 1 .. 2 : f.border[side] \in Au /\ f.border[side] \in Int
    BY WidthAssumption DEF Fragment, Rect, Au
  <2>2. solid_border_widths(f) \in [1 .. 2 -> Au]
    BY <2>1, WidthAssumption DEF solid_border_widths, Larger, Au
  <2>3. check_rect(f.border_box, Region) = "Ok"
    BY <1>1 DEF check_rect, DrawableFragment
  <2>4. border_widths_valid(f.border_box, solid_border_widths(f))
    BY <2>1 DEF border_widths_valid, solid_border_widths, Larger, DrawableFragment, rect_is_valid
  <2>5. RectItem(id, f.border_box) \in Acceptable
    BY <2>1, <2>3 DEF RectItem, Acceptable, DisplayItem
  <2>6. BorderItem(id, f.border_box, solid_border_widths(f)) \in Acceptable
    BY <2>1, <2>2, <2>3, <2>4 DEF BorderItem, Acceptable, DisplayItem, check_border
  <2> QED BY <2>5, <2>6 DEF paint_block
<1>2. paint_runs(id, f) \in Seq(Acceptable)
  <2> DEFINE Shown == {i \in DOMAIN f.runs : /\ f.runs[i].glyphs # <<>>
                                             /\ contains_point(Region, f.runs[i].origin)}
  <2>1. f.runs \in Seq(GlyphRun) /\ Len(f.runs) \in Nat /\ \A i \in Shown : i \in 1 .. Len(f.runs)
    BY DEF Fragment
  <2>2. \A i \in Shown : TextItem(id, f.runs[i]) \in Acceptable
    <3> TAKE i \in Shown
    <3>1. f.runs[i] \in GlyphRun /\ contains_point(Region, f.runs[i].origin) /\ i \in DOMAIN f.runs
      BY <2>1
    <3>2. /\ Len(f.runs[i].glyphs) \in Nat /\ ~ (Len(f.runs[i].glyphs) > MAX_GLYPHS_PER_RUN)
          /\ ~ \E g \in DOMAIN f.runs[i].glyphs :
                 ~ checked_add_fits(f.runs[i].origin, f.runs[i].glyphs[g].x)
      BY <3>1, LimitsAssumption DEF DrawableFragment, GlyphRun
    <3>3. check_text_run(f.runs[i], Region) = "Ok"
      BY <3>1, <3>2 DEF check_text_run
    <3> QED BY <3>1, <3>3 DEF TextItem, Acceptable, DisplayItem
  <2> HIDE DEF Shown
  <2>3. Cardinality(Shown) \in Nat
    <3>1. Shown \in SUBSET (1 .. Len(f.runs)) /\ IsFiniteSet(1 .. Len(f.runs))
      BY <2>1, FS_Interval
    <3>2. IsFiniteSet(Shown)
      BY <3>1, FS_Subset
    <3> QED BY <3>2, FS_CardinalityType
  <2>4. \A k \in 1 .. Cardinality(Shown) : nth(Shown, k) \in Shown
    BY <2>1, NthIsMember
  <2>5. [k \in 1 .. Cardinality(Shown) |-> TextItem(id, f.runs[nth(Shown, k)])] \in Seq(Acceptable)
    BY <2>2, <2>3, <2>4
  <2> QED BY <2>5 DEF paint_runs, Shown
<1> QED BY <1>1, <1>2 DEF paint_fragment

LEMMA EmittedIsAcceptable ==
  ASSUME RoomForMargins(Bounds), NEW id \in Nat, NEW f \in Fragment, DrawableFragment(f)
  PROVE  fragment_items(id, f) \in Seq(Acceptable)
<1>1. paint_fragment(id, f) \in Seq(Acceptable)
  BY PaintedIsAcceptable
<1>2. check_rect(clip_rect(f), Region) = "Ok"
  <2>1. inset(f.border_box, f.border) \in Rect
    <3>1. /\ f.border_box.origin \in Au /\ f.border_box.size \in Au
          /\ f.border[1] \in Au /\ f.border[2] \in Au
      BY DEF Fragment, Rect
    <3>2. \A a, b \in Au : saturating_add(a, b) \in Au /\ saturating_sub(a, b) \in Au
      BY WidthAssumption DEF saturating_add, saturating_sub, clamp, Au
    <3>3. \A a \in Au : Larger(a, 0) \in Au
      BY WidthAssumption DEF Larger, Au
    <3> QED BY <3>1, <3>2, <3>3 DEF inset, Rect
  <2> QED BY <2>1, ClampedClipPasses DEF clip_rect, Region
<1>3. PushClip(id, clip_rect(f)) \in Acceptable
  BY <1>2, ClipRectIsRect DEF PushClip, Acceptable, DisplayItem
<1>4. <<PushClip(id, clip_rect(f))>> \in Seq(Acceptable) /\ <<>> \in Seq(Acceptable)
  BY <1>3
<1> QED BY <1>1, <1>4, ConcatProperties DEF fragment_items

LEMMA CanvasIsAcceptable ==
  ASSUME RoomForMargins(Bounds), NEW source \in Nat
  PROVE  canvas_items(source) \in Seq(Acceptable)
<1>1. /\ Bounds \in Rect /\ Bounds.origin = 0 /\ Bounds.size > 0
      /\ Bounds.size \in Int /\ Bounds.size <= MaxAu /\ far_edge(Bounds) = Bounds.size
  BY LimitsAssumption, WidthAssumption
     DEF RoomForMargins, Rect, Au, far_edge, saturating_add, clamp
<1>2. Region.min = - OFFSCREEN_MARGIN /\ Region.max = Bounds.size + OFFSCREEN_MARGIN
  BY RegionIsExact DEF Region
<1>3. check_rect(Bounds, Region) = "Ok"
  <2>1. rect_is_valid(Bounds)
    BY <1>1, WidthAssumption DEF rect_is_valid, checked_add_fits, Au
  <2>2. intersects_rect(Region, Bounds)
    BY <1>1, <1>2, LimitsAssumption DEF intersects_rect, axis_overlaps
  <2> QED BY <2>1, <2>2 DEF check_rect
<1>4. RectItem(source, Bounds) \in Acceptable
  BY <1>1, <1>3 DEF RectItem, Acceptable, DisplayItem
<1> QED BY <1>4 DEF canvas_items

LEMMA ListStartsAcceptable ==
  RoomForMargins(Bounds) /\ BuildInit => items \in Seq(Acceptable)
<1>1. BuildInit => tree \in FragmentTree
  BY TreesAssumption DEF BuildInit
<1> QED BY <1>1, CanvasComesFromTree, CanvasIsAcceptable DEF BuildInit

LEMMA ListStaysAcceptable ==
  ASSUME RoomForMargins(Bounds), Drawable(tree), WalkInv, items \in Seq(Acceptable), [Walk]_buildVars
  PROVE  items' \in Seq(Acceptable)
<1>1. PopClip \in Acceptable
  BY DEF Acceptable, DisplayItem, PopClip
<1>2. CASE VisitFragment
  <2> DEFINE id  == Head(stack).id
             f   == tree.fragments[id]
             new == fragment_items(id, f)
  <2>1. id \in Nat /\ f \in Fragment /\ DrawableFragment(f) /\ items' = items \o new
    <3>1. Resolves(tree, id) /\ items' = items \o new
      BY <1>2 DEF VisitFragment
    <3>2. tree.fragments \in Seq(Fragment) /\ id \in DOMAIN tree.fragments
      BY <3>1 DEF Resolves, WalkInv, Shape, FragmentTree
    <3> QED BY <3>1, <3>2 DEF Drawable
  <2> HIDE DEF id, f
  <2>2. new \in Seq(Acceptable)
    BY <2>1, EmittedIsAcceptable
  <2> HIDE DEF new
  <2> QED BY <2>1, <2>2, ConcatProperties
<1>3. CASE CloseClip
  BY <1>1, <1>3 DEF CloseClip
<1>4. CASE StopWalk
  <2> DEFINE new == drain_pending_pop_clips(stack)
  <2>1. new \in Seq(DisplayItem) /\ \A k \in DOMAIN new : new[k] = PopClip
    BY DrainedClips
  <2>2. items' = items \o new
    BY <1>4 DEF StopWalk
  <2> HIDE DEF new
  <2>3. new \in Seq(Acceptable)
    BY <1>1, <2>1
  <2> QED BY <2>2, <2>3, ConcatProperties
<1>5. CASE SkipDangling \/ EndWalk \/ UNCHANGED buildVars
  BY <1>5 DEF SkipDangling, EndWalk, buildVars
<1> QED BY <1>2, <1>3, <1>4, <1>5 DEF Walk

\* What an acceptable item can still be refused for in a list that balances.
LEMMA OnlyDepthIsLeft ==
  ASSUME WalkInv, items \in Seq(Acceptable), NEW i \in DOMAIN items
  PROVE  /\ check_item(items, i, Region) \in {"Ok", "TooDeepClip"}
         /\ check_item(items, i, Region) = "TooDeepClip" =>
              items[i].item = "PushClip" /\ depth(items, i) + 1 > MAX_CLIP_DEPTH
<1>1. items[i] \in Acceptable /\ items[i] \in DisplayItem
  BY DEF Acceptable
<1>2. items[i].item \in {"Rect", "Border", "Text", "PushClip", "PopClip"}
  BY <1>1 DEF DisplayItem, PopClip
<1>3. CASE items[i].item = "Rect"
  BY <1>1, <1>3 DEF check_item, Acceptable
<1>4. CASE items[i].item = "Border"
  BY <1>1, <1>4 DEF check_item, Acceptable
<1>5. CASE items[i].item = "Text"
  BY <1>1, <1>5 DEF check_item, Acceptable
<1>6. CASE items[i].item = "PushClip"
  BY <1>1, <1>6 DEF check_item, check_push, Acceptable
<1>7. CASE items[i].item = "PopClip"
  <2>1. depth(items, i) # 0
    BY <1>7, DepthStep DEF WalkInv, Shape
  <2> QED BY <1>7, <2>1 DEF check_item, check_pop
<1> QED BY <1>2, <1>3, <1>4, <1>5, <1>6, <1>7

LEMMA BoundsAreValid ==
  ASSUME RoomForMargins(Bounds)
  PROVE  bounds_is_valid(Bounds)
BY LimitsAssumption, WidthAssumption
   DEF RoomForMargins, bounds_is_valid, checked_add_fits, Rect, Au

LEMMA FinishedListValidates ==
  ASSUME RoomForMargins(Bounds), WalkInv, items \in Seq(Acceptable), built
  PROVE  /\ validate(items, Bounds) \in {"Ok", "TooManyItems", "TooDeepClip"}
         /\ validate(items, Bounds) = "TooManyItems" => Len(items) > MAX_ITEMS
         /\ validate(items, Bounds) = "TooDeepClip" =>
              \E i \in DOMAIN items :
                items[i].item = "PushClip" /\ depth(items, i) + 1 > MAX_CLIP_DEPTH
<1> DEFINE Wrong == {i \in DOMAIN items : check_item(items, i, inflate(Bounds)) # "Ok"}
           first == CHOOSE i \in Wrong : \A j \in Wrong : i <= j
<1>1. Wrong # {} => first \in Wrong
  <2>1. Wrong \in SUBSET Nat
    OBVIOUS
  <2>2. Wrong # {} => \E i \in Wrong : \A j \in Wrong : i <= j
    <3> HIDE DEF Wrong
    <3> QED BY <2>1, LeastNatural
  <2> HIDE DEF Wrong
  <2> QED BY <2>2
<1>2. Wrong # {} =>
        /\ first \in DOMAIN items
        /\ check_item(items, first, inflate(Bounds)) = "TooDeepClip"
        /\ items[first].item = "PushClip" /\ depth(items, first) + 1 > MAX_CLIP_DEPTH
  <2> SUFFICES ASSUME Wrong # {}
               PROVE  /\ first \in DOMAIN items
                      /\ check_item(items, first, inflate(Bounds)) = "TooDeepClip"
                      /\ items[first].item = "PushClip" /\ depth(items, first) + 1 > MAX_CLIP_DEPTH
    OBVIOUS
  <2>1. first \in DOMAIN items /\ check_item(items, first, inflate(Bounds)) # "Ok"
    BY <1>1
  <2> HIDE DEF first
  <2> QED BY <2>1, OnlyDepthIsLeft DEF Region
<1>3. depth(items, Len(items) + 1) = 0
  <2>1. Hits(<<>>, ClipEnds) = {}
    BY DEF Hits
  <2> QED BY <2>1, FS_EmptySet DEF WalkInv
<1>4. validate(items, Bounds) =
        IF ~ bounds_is_valid(Bounds) THEN "InvalidBounds"
        ELSE IF Len(items) > MAX_ITEMS THEN "TooManyItems"
        ELSE IF Wrong # {} THEN check_item(items, first, inflate(Bounds))
        ELSE IF depth(items, Len(items) + 1) # 0 THEN "UnbalancedClip"
        ELSE "Ok"
  BY DEF validate
<1> HIDE DEF Wrong, first
<1>5. CASE Len(items) > MAX_ITEMS
  BY <1>2, <1>3, <1>4, <1>5, BoundsAreValid
<1>6. CASE ~ (Len(items) > MAX_ITEMS)
  BY <1>2, <1>3, <1>4, <1>6, BoundsAreValid
<1> QED BY <1>5, <1>6
-----------------------------------------------------------------------------
(***************************************************************************)
(* The list on its way to the rasteriser.                                  *)
(***************************************************************************)
\* A page that asks for no more than is allowed and has a font for its text.
WithinLimits ==
  /\ Len(items) <= MAX_ITEMS
  /\ \A i \in DOMAIN items :
       /\ items[i].item = "PushClip" => depth(items, i) + 1 <= MAX_CLIP_DEPTH
       /\ items[i].item = "Text" => items[i].run.font \in Fonts

\* A page that layout could have made, on a canvas with room for the margins.
DrawablePage == RoomForMargins(Bounds) /\ Drawable(tree)

PageInv ==
  /\ DrawablePage /\ WalkInv /\ items \in Seq(Acceptable)
  /\ verdict # "none" => built
  /\ at \in Nat \ {0}

(* Raster has the validator for its own; it is the same one.               *)
LEMMA SameValidator == R!validate(items, R!Canvas) = validate(items, Bounds)
<1>1. R!Canvas = Bounds
  BY ViewportAssumption DEF R!Canvas, Bounds
<1>2. R!inflate(Bounds) = inflate(Bounds) /\ (R!bounds_is_valid(Bounds) <=> bounds_is_valid(Bounds))
  BY DEF R!inflate, R!bounds_is_valid, R!checked_add_fits, R!saturating_sub, R!saturating_add,
         R!far_edge, R!clamp, R!Au, inflate, bounds_is_valid, checked_add_fits, saturating_sub,
         saturating_add, far_edge, clamp, Au
<1>3. \A r, region : R!check_rect(r, region) = check_rect(r, region)
  BY DEF R!check_rect, R!rect_is_valid, R!checked_add_fits, R!Au, R!intersects_rect,
         R!axis_overlaps, R!far_edge, R!saturating_add, R!clamp, check_rect, rect_is_valid,
         checked_add_fits, Au, intersects_rect, axis_overlaps, far_edge, saturating_add, clamp
<1>4. \A r, widths, region : R!check_border(r, widths, region) = check_border(r, widths, region)
  BY <1>3 DEF R!check_border, R!border_widths_valid, check_border, border_widths_valid
<1>5. \A run, region : R!check_text_run(run, region) = check_text_run(run, region)
  BY DEF R!check_text_run, R!contains_point, R!checked_add_fits, R!Au,
         check_text_run, contains_point, checked_add_fits, Au
<1>6. \A i : R!depth(items, i) = depth(items, i)
  <2>1. \A S : R!Cardinality(S) = Cardinality(S)
    BY DEF R!Cardinality, Cardinality
  <2> QED BY <2>1 DEF R!depth, depth
<1>7. \A i, region : R!check_item(items, i, region) = check_item(items, i, region)
  <2> TAKE i, region
  <2>1. /\ R!check_push(items, i, region) = check_push(items, i, region)
        /\ R!check_pop(items, i) = check_pop(items, i)
    BY <1>3, <1>6 DEF R!check_push, R!check_pop, check_push, check_pop
  <2> QED BY <1>3, <1>4, <1>5, <2>1 DEF R!check_item, check_item
<1>8. {i \in DOMAIN items : R!check_item(items, i, inflate(Bounds)) # "Ok"}
        = {i \in DOMAIN items : check_item(items, i, inflate(Bounds)) # "Ok"}
  BY <1>7
<1> QED BY <1>1, <1>2, <1>6, <1>7, <1>8 DEF R!validate, validate

LEMMA PageStarts == Init /\ DrawablePage => PageInv
BY WalkStarts, ListStartsAcceptable DEF Init, R!Ready, PageInv, DrawablePage

LEMMA PageKept == PageInv /\ [Building \/ Rasterizing]_vars => PageInv'
<1> SUFFICES ASSUME PageInv, [Building \/ Rasterizing]_vars PROVE PageInv'
  OBVIOUS
<1>1. CASE Building
  <2>1. Walk /\ UNCHANGED <<verdict, at>> /\ tree' = tree /\ (built => built')
    BY <1>1 DEF Building, drawVars, Walk, VisitFragment, SkipDangling, CloseClip, StopWalk, EndWalk,
                NextFrame
  <2>2. WalkInv' /\ items' \in Seq(Acceptable)
    BY <2>1, WalkKept, ListStaysAcceptable DEF PageInv, DrawablePage
  <2> QED BY <2>1, <2>2 DEF PageInv, DrawablePage, Drawable
<1>2. CASE Rasterizing
  <2>1. built /\ UNCHANGED buildVars /\ at' \in {at, at + 1}
    BY <1>2 DEF Rasterizing, buildVars, R!RasterStep, R!check_list, R!draw_rect, R!draw_border,
                R!begin_run, R!draw_glyph, R!push, R!pop
  <2>2. WalkInv'
    BY <2>1, WalkKept DEF PageInv
  <2>3. items' = items /\ built' = built /\ tree' = tree
    BY <2>1 DEF buildVars
  <2> QED BY <2>1, <2>2, <2>3 DEF PageInv, DrawablePage, Drawable
<1>3. CASE UNCHANGED vars
  <2>1. UNCHANGED buildVars /\ UNCHANGED <<verdict, at>>
    BY <1>3 DEF vars, drawVars
  <2>2. WalkInv'
    BY <2>1, WalkKept DEF PageInv
  <2> QED BY <2>1, <2>2 DEF PageInv, DrawablePage, Drawable, buildVars
<1> QED BY <1>1, <1>2, <1>3

LEMMA PageInvariance == Spec /\ DrawablePage => []PageInv
BY PageStarts, PageKept, PTL DEF Spec

(* Whatever the tree, a finished list of drawable fragments can be refused *)
(* for its length or the depth of its clips and for nothing else: what the *)
(* builder keeps or clamps, the validator lets pass (build.rs, "the result *)
(* always satisfies validate's bounds check").                             *)
RefusedByLimitsOnly ==
  built => validate(items, Bounds) \in {"Ok", "TooManyItems", "TooDeepClip"}

(* Whatever build makes of a drawable page, the limits on length and depth *)
(* are the only ones it can run into.                                      *)
THEOREM OnlyLimitsRefuse == Spec /\ DrawablePage => []RefusedByLimitsOnly
<1>1. PageInv => RefusedByLimitsOnly
  BY FinishedListValidates DEF PageInv, DrawablePage, RefusedByLimitsOnly
<1> QED BY <1>1, PageInvariance, PTL

(* A page within the limits is drawn to its end.                           *)
THEOREM PagesAreDrawn == Spec /\ DrawablePage /\ []WithinLimits => []BuiltListValidates
<1>1. Init => BuiltListValidates
  BY DEF Init, R!Ready, BuiltListValidates
<1>2. ASSUME PageInv, WithinLimits, BuiltListValidates, [Building \/ Rasterizing]_vars
      PROVE  BuiltListValidates'
  <2>1. CASE Building \/ UNCHANGED vars
    BY <1>2, <2>1 DEF Building, vars, drawVars, BuiltListValidates
  <2>2. CASE Rasterizing
    <3>1. CASE R!check_list
      <4>1. verdict' = validate(items, Bounds) /\ built
        BY <2>2, <3>1, SameValidator DEF Rasterizing, R!check_list
      <4>2. /\ verdict' \in {"Ok", "TooManyItems", "TooDeepClip"}
            /\ verdict' = "TooManyItems" => Len(items) > MAX_ITEMS
            /\ verdict' = "TooDeepClip" =>
                 \E i \in DOMAIN items :
                   items[i].item = "PushClip" /\ depth(items, i) + 1 > MAX_CLIP_DEPTH
        BY <1>2, <4>1, FinishedListValidates DEF PageInv, DrawablePage
      <4>3. ~ (Len(items) > MAX_ITEMS)
        BY <1>2, LimitsAssumption DEF WithinLimits, PageInv, WalkInv, Shape
      <4>4. \A i \in DOMAIN items :
              items[i].item = "PushClip" => ~ (depth(items, i) + 1 > MAX_CLIP_DEPTH)
        <5> TAKE i \in DOMAIN items
        <5>1. i \in Nat \ {0}
          BY <1>2 DEF PageInv, WalkInv, Shape
        <5>2. depth(items, i) \in Int
          BY <5>1, DepthStep
        <5> QED BY <1>2, <5>2, LimitsAssumption DEF WithinLimits
      <4> QED BY <4>2, <4>3, <4>4 DEF BuiltListValidates
    <3>2. CASE R!begin_run
      <4>1. at \in DOMAIN items /\ items[at].item = "Text"
        BY <1>2, <3>2 DEF R!begin_run, R!Drawing, PageInv, WalkInv, Shape
      <4>2. items[at].run.font \in Fonts
        BY <1>2, <4>1 DEF WithinLimits
      <4> QED BY <1>2, <3>2, <4>2 DEF R!begin_run, BuiltListValidates
    <3>3. CASE R!draw_rect \/ R!draw_border \/ R!draw_glyph \/ R!push \/ R!pop
      BY <1>2, <3>3 DEF R!draw_rect, R!draw_border, R!draw_glyph, R!push, R!pop, BuiltListValidates
    <3> QED BY <2>2, <3>1, <3>2, <3>3 DEF Rasterizing, R!RasterStep
  <2> QED BY <1>2, <2>1, <2>2
<1> QED BY <1>1, <1>2, PageInvariance, PTL DEF Spec
===============================================================================
