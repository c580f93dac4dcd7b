----------------------------- MODULE RasterProofs -----------------------------
(***************************************************************************)
(* The rasteriser keeps its clip stack, its glyph cache and its pixels     *)
(* right for every display list, whoever made it: every width of Au, every *)
(* canvas, limit and cache budget.                                         *)
(***************************************************************************)
EXTENDS Raster, PaintProofs, SequenceTheorems

(* rasterize called with any list at all.                                  *)
RasterSpec == Ready /\ list \in Seq(DisplayItem) /\ [][RasterStep]_rasterVars

-----------------------------------------------------------------------------
(* Where the loop is: inside a list that has passed validate, and inside   *)
(* a run of it that draws something.                                       *)
Progress ==
  /\ list \in Seq(DisplayItem)
  /\ verdict = "none" => at = 1 /\ glyph = 0 /\ clips = <<Canvas>>
  /\ verdict = "Ok" =>
       /\ validate(list, Canvas) = "Ok"
       /\ at \in 1 .. Len(list) + 1
       /\ glyph # 0 =>
            /\ Drawing("Text")
            /\ glyph \in DOMAIN list[at].run.glyphs
            /\ list[at].run.size \in 1 .. MAX_GLYPH_PX

\* What level k of the clip stack stands for: the canvas and the k - 1
\* outermost open clips.
Level(k, p) ==
  Covers(Canvas, p) /\ \A j \in OpenAt(list, at) : depth(list, j) < k - 1 => Covers(list[j].rect, p)

(* The whole stack, not its top alone: a pop uncovers what is below.       *)
StackIsWhatIsOpen ==
  verdict = "Ok" =>
    /\ clips \in Seq(Rect)
    /\ Len(clips) >= 1 /\ Len(clips) = depth(list, at) + 1
    /\ \A k \in 1 .. Len(clips) :
         /\ clips[k].origin >= 0
         /\ \A p \in Au : Covers(clips[k], p) <=> Level(k, p)

ClipInv == Progress /\ StackIsWhatIsOpen

(* A mask is stored under the key it was rendered for.                     *)
Stored == UNION {{key} \X (1 .. byte_size(cache[key])) : key \in DOMAIN cache}
CacheInv ==
  /\ \A key \in DOMAIN cache : cache[key] = key
  /\ IsFiniteSet(Stored) /\ CacheAccounts

\* The fields of an item of each kind.
LEMMA ItemFields ==
  ASSUME NEW i \in DisplayItem
  PROVE  /\ i.item \in {"Rect", "Border", "Text", "PushClip", "PopClip"}
         /\ i.item \in {"Rect", "Border", "PushClip"} => i.rect \in Rect
         /\ i.item = "Border" => i.widths \in [1 .. 2 -> Au]
         /\ i.item = "Text" => i.run \in GlyphRun
BY DEF DisplayItem, PopClip

LEMMA CanvasIsRect ==
  /\ Canvas \in Rect /\ Canvas.origin = 0
  /\ \A p \in Au : Covers(Canvas, p) <=> p \in 0 .. Width * AU_PER_PX - 1
  /\ 0 .. Width * AU_PER_PX - 1 \subseteq Au
<1>1. Width * AU_PER_PX \in Nat
  BY CanvasAssumption
<1> QED BY <1>1, <1>1, CanvasAssumption, WidthAssumption
  DEF Canvas, Rect, Au, Covers, far_edge, saturating_add, clamp

-----------------------------------------------------------------------------
LEMMA InitClips == Ready /\ list \in Seq(DisplayItem) => ClipInv
BY DEF Ready, ClipInv, Progress, StackIsWhatIsOpen

LEMMA ProgressKept == Progress /\ [RasterStep]_rasterVars => Progress'
<1> SUFFICES ASSUME Progress, [RasterStep]_rasterVars PROVE Progress'
  OBVIOUS
<1> USE DEF Progress, Drawing
<1>1. CASE check_list
  BY <1>1 DEF check_list
<1>2. CASE draw_rect
  BY <1>2 DEF draw_rect
<1>3. CASE draw_border
  BY <1>3 DEF draw_border
<1>4. CASE begin_run
  <2>1. verdict = "Ok" /\ glyph = 0 /\ at \in 1 .. Len(list) /\ list' = list /\ clips' = clips
    BY <1>4 DEF begin_run
  <2>2. list[at].run \in GlyphRun
    BY <1>4, <2>1, ItemFields DEF begin_run
  <2>3. glyph' # 0 => glyph' = 1 /\ verdict' = "Ok" /\ at' = at /\ ~ nothing_to_draw(list[at].run, clip_now)
    BY <1>4 DEF begin_run
  <2>4. ~ nothing_to_draw(list[at].run, clip_now) =>
          1 \in DOMAIN list[at].run.glyphs /\ list[at].run.size \in 1 .. MAX_GLYPH_PX
    BY <2>2 DEF nothing_to_draw, GlyphRun
  <2>5. verdict' \in {"Ok", "FontNotBundled"} /\ at' \in {at, at + 1}
    BY <1>4 DEF begin_run
  <2> QED BY <1>4, <2>1, <2>3, <2>4, <2>5 DEF begin_run
<1>5. CASE draw_glyph
  <2>1. list[at].run.glyphs \in Seq([id : STRING, x : Au])
    <3>1. list[at] \in DisplayItem /\ list[at].item = "Text"
      BY <1>5 DEF draw_glyph
    <3> QED BY <3>1, ItemFields DEF GlyphRun
  <2> QED BY <1>5, <2>1 DEF draw_glyph
<1>6. CASE push \/ pop
  BY <1>6 DEF push, pop
<1>7. CASE UNCHANGED rasterVars
  BY <1>7 DEF rasterVars
<1> QED BY <1>1, <1>2, <1>3, <1>4, <1>5, <1>6, <1>7 DEF RasterStep

(* A step over an item that is no clip, or to no item.                     *)
LEMMA StackUntouched ==
  ASSUME Progress, StackIsWhatIsOpen, verdict = "Ok", clips' = clips, list' = list,
         at' = at \/ (at' = at + 1 /\ list[at].item \notin {"PushClip", "PopClip"})
  PROVE  StackIsWhatIsOpen'
<1>1. at \in Nat \ {0}
  BY DEF Progress
<1>2. depth(list, at') = depth(list, at) /\ OpenAt(list, at') = OpenAt(list, at)
  BY <1>1, DepthStep, OpenStep
<1> QED BY <1>2 DEF StackIsWhatIsOpen, Level

LEMMA PushStep ==
  ASSUME ClipInv, push
  PROVE  StackIsWhatIsOpen'
<1> SUFFICES ASSUME NEW n, n = Len(clips), NEW r, r = list[at].rect
             PROVE  StackIsWhatIsOpen'
  OBVIOUS
<1>1. /\ verdict = "Ok" /\ at \in Nat \ {0} /\ at \in DOMAIN list /\ list[at].item = "PushClip"
      /\ verdict' = "Ok" /\ list' = list /\ at' = at + 1
      /\ clips' = Append(clips, intersect(clips[n], r))
  BY DEF ClipInv, Progress, push, Drawing, clip_now
<1>2. r \in Rect
  BY <1>1, ItemFields DEF ClipInv, Progress
<1>3. /\ clips \in Seq(Rect) /\ n = Len(clips) /\ n \in Nat /\ n >= 1 /\ n = depth(list, at) + 1
      /\ \A k \in 1 .. n : /\ clips[k] \in Rect /\ clips[k].origin >= 0
                           /\ \A p \in Au : Covers(clips[k], p) <=> Level(k, p)
  BY <1>1 DEF ClipInv, StackIsWhatIsOpen
<1>4. /\ depth(list, at) \in Int /\ depth(list, at') = depth(list, at) + 1
      /\ OpenAt(list, at') = OpenAt(list, at) \cup {at}
  BY <1>1, DepthStep, OpenStep
<1>5. \A j \in OpenAt(list, at) : depth(list, j) \in Int /\ depth(list, j) < n - 1
  BY <1>1, <1>3, <1>4, OpenIsBelow
<1>6. /\ intersect(clips[n], r) \in Rect /\ intersect(clips[n], r).origin >= 0
      /\ \A p \in Au : Covers(intersect(clips[n], r), p) <=> Covers(clips[n], p) /\ Covers(r, p)
  BY <1>2, <1>3, IntersectionIsExact DEF Au
<1>7. /\ clips' \in Seq(Rect) /\ Len(clips') = n + 1
      /\ \A k \in 1 .. n : clips'[k] = clips[k]
      /\ clips'[n + 1] = intersect(clips[n], r)
  <2>1. ASSUME NEW x \in Rect, clips' = Append(clips, x)
        PROVE  /\ clips' \in Seq(Rect) /\ Len(clips') = n + 1
               /\ \A k \in 1 .. n : clips'[k] = clips[k]
               /\ clips'[n + 1] = x
    <3>1. clips \in Seq(Rect) /\ n = Len(clips)
      BY <1>3
    <3> QED BY ONLY <3>1, <2>1, AppendProperties
  <2>2. intersect(clips[n], r) \in Rect /\ clips' = Append(clips, intersect(clips[n], r))
    BY <1>1, <1>6
  <2> QED BY ONLY <2>1, <2>2
<1>8. \A k \in 1 .. n, p \in Au : Level(k, p)' <=> Level(k, p)
  BY <1>1, <1>3, <1>4, <1>5 DEF Level
<1>9. \A p \in Au : Level(n + 1, p)' <=> Level(n, p) /\ Covers(r, p)
  <2> TAKE p \in Au
  <2>1. Level(n + 1, p)' <=>
          /\ Covers(Canvas, p)
          /\ \A j \in OpenAt(list, at) \cup {at} : depth(list, j) < n => Covers(list[j].rect, p)
    BY <1>1, <1>3, <1>4, <1>5 DEF Level
  <2>2. depth(list, at) < n /\ \A j \in OpenAt(list, at) : depth(list, j) < n - 1 /\ depth(list, j) < n
    BY <1>3, <1>4, <1>5
  <2> QED BY <2>1, <2>2 DEF Level
<1>10. \A k \in 1 .. n + 1 : /\ clips'[k].origin >= 0
                             /\ \A p \in Au : Covers(clips'[k], p) <=> Level(k, p)'
  <2> TAKE k \in 1 .. n + 1
  <2>1. CASE k \in 1 .. n
    BY <2>1, <1>3, <1>7, <1>8
  <2>2. CASE k = n + 1
    <3>1. n \in 1 .. n
      BY <1>3
    <3>2. \A p \in Au : Covers(clips'[n + 1], p) <=> Level(n, p) /\ Covers(r, p)
      BY <3>1, <1>3, <1>6, <1>7
    <3> QED BY <2>2, <3>2, <1>6, <1>7, <1>9
  <2> QED BY <1>3, <2>1, <2>2
<1> QED BY <1>1, <1>3, <1>4, <1>7, <1>10 DEF StackIsWhatIsOpen

(* validate has refused the lists that pop with nothing open.              *)
LEMMA PopIsOfAClip ==
  ASSUME ClipInv, Drawing("PopClip")
  PROVE  depth(list, at) # 0 /\ Len(clips) > 1
<1>1. /\ validate(list, Canvas) = "Ok" /\ DOMAIN list \in SUBSET Nat
      /\ at \in DOMAIN list /\ list[at].item = "PopClip" /\ verdict = "Ok"
  BY DEF ClipInv, Progress, Drawing
<1>2. check_item(list, at, inflate(Canvas)) = "Ok"
  BY <1>1, ValidItems
<1>3. depth(list, at) # 0
  BY <1>1, <1>2 DEF check_item, check_pop
<1>4. depth(list, at) \in Int /\ Len(clips) \in Nat
  BY <1>1, DepthStep DEF ClipInv, Progress, StackIsWhatIsOpen
<1> QED BY <1>1, <1>3, <1>4 DEF ClipInv, StackIsWhatIsOpen

LEMMA PopStep ==
  ASSUME ClipInv, pop
  PROVE  StackIsWhatIsOpen'
<1> SUFFICES ASSUME NEW n, n = Len(clips)
             PROVE  StackIsWhatIsOpen'
  OBVIOUS
<1>1. /\ verdict = "Ok" /\ at \in Nat \ {0} /\ list[at].item = "PopClip" /\ n > 1
      /\ verdict' = "Ok" /\ list' = list /\ at' = at + 1
      /\ clips' = SubSeq(clips, 1, n - 1)
  BY PopIsOfAClip DEF ClipInv, Progress, pop, Drawing
<1>2. /\ clips \in Seq(Rect) /\ n \in Nat /\ n = depth(list, at) + 1
      /\ \A k \in 1 .. n : /\ clips[k] \in Rect /\ clips[k].origin >= 0
                           /\ \A p \in Au : Covers(clips[k], p) <=> Level(k, p)
  BY <1>1 DEF ClipInv, StackIsWhatIsOpen
<1>3. /\ depth(list, at) \in Int /\ depth(list, at') = depth(list, at) - 1
      /\ OpenAt(list, at') = {j \in OpenAt(list, at) : depth(list, j) < depth(list, at) - 1}
  BY <1>1, DepthStep, OpenStep
<1>4. \A j \in OpenAt(list, at) : depth(list, j) \in Int
  BY <1>1, <1>2, <1>3, OpenIsBelow
<1>5. /\ clips' \in Seq(Rect) /\ Len(clips') = n - 1
      /\ \A k \in 1 .. n - 1 : clips'[k] = clips[k]
  BY <1>1, <1>2
<1>6. \A k \in 1 .. n - 1, p \in Au : Level(k, p)' <=> Level(k, p)
  BY <1>1, <1>2, <1>3, <1>4 DEF Level
<1> QED BY <1>1, <1>2, <1>3, <1>5, <1>6 DEF StackIsWhatIsOpen

LEMMA ClipsKept == ClipInv /\ [RasterStep]_rasterVars => ClipInv'
<1> SUFFICES ASSUME ClipInv, [RasterStep]_rasterVars PROVE StackIsWhatIsOpen'
  BY ProgressKept DEF ClipInv
<1> USE DEF ClipInv
<1>1. CASE check_list
  <2>1. at = 1 /\ clips = <<Canvas>> /\ UNCHANGED <<at, clips, list>>
    BY <1>1 DEF check_list, Progress
  <2>2. OpenAt(list, 1) = {} /\ depth(list, 1) = 0
    BY DepthStep DEF OpenAt
  <2>3. clips \in Seq(Rect) /\ Len(clips) = 1 /\ clips[1] = Canvas
    BY <2>1, CanvasIsRect
  <2> QED BY <2>1, <2>2, <2>3, CanvasIsRect DEF StackIsWhatIsOpen, Level
<1>2. CASE draw_rect \/ draw_border
  BY <1>2, StackUntouched DEF draw_rect, draw_border, Drawing
<1>3. CASE begin_run
  BY <1>3, StackUntouched DEF begin_run, Drawing
<1>4. CASE draw_glyph
  BY <1>4, StackUntouched DEF draw_glyph, Drawing
<1>5. CASE push
  BY <1>5, PushStep
<1>6. CASE pop
  BY <1>6, PopStep
<1>7. CASE UNCHANGED rasterVars
  BY <1>7 DEF rasterVars, StackIsWhatIsOpen, Level
<1> QED BY <1>1, <1>2, <1>3, <1>4, <1>5, <1>6, <1>7 DEF RasterStep

LEMMA ClipInvariance == RasterSpec => []ClipInv
BY InitClips, ClipsKept, PTL DEF RasterSpec

(* The clip a thing is drawn under is what the list has open, for every    *)
(* list that validates, however deep its clips nest and whatever they cut  *)
(* off each other; the canvas itself is never popped.                      *)
THEOREM ClipsAreExact == RasterSpec => []ClipIsWhatIsOpen
<1>1. ASSUME ClipInv, verdict = "Ok", NEW p \in 0 .. Width * AU_PER_PX - 1
      PROVE  Covers(clip_now, p) <=> \A j \in OpenAt(list, at) : Covers(list[j].rect, p)
  <2>1. p \in Au /\ Covers(Canvas, p)
    BY CanvasIsRect, CanvasAssumption
  <2>2. \A j \in OpenAt(list, at) : depth(list, j) < Len(clips) - 1
    <3>1. at \in Nat \ {0} /\ Len(clips) = depth(list, at) + 1
      BY <1>1 DEF ClipInv, Progress, StackIsWhatIsOpen
    <3> QED BY <3>1, DepthStep, OpenIsBelow
  <2>3. Covers(clip_now, p) <=> Level(Len(clips), p)
    BY <1>1, <2>1 DEF ClipInv, StackIsWhatIsOpen, clip_now
  <2> QED BY <2>1, <2>2, <2>3 DEF Level
<1>2. ClipInv => ClipIsWhatIsOpen
  BY <1>1, PopIsOfAClip DEF ClipIsWhatIsOpen
<1> QED BY <1>2, ClipInvariance, PTL
-----------------------------------------------------------------------------
(* The cost of a mask that is stored under a new key.                      *)
LEMMA StoreMask ==
  ASSUME CacheInv, bytes \in Nat, NEW key, key \notin DOMAIN cache, byte_size(key) \in Nat,
         insert(key, key)
  PROVE  CacheInv' /\ bytes' \in Nat
<1>1. CASE UNCHANGED <<bytes, cache>>
  BY <1>1 DEF CacheInv, CacheAccounts, Stored
<1>2. CASE /\ bytes + byte_size(key) <= MAX_CACHE_BYTES
           /\ bytes' = bytes + byte_size(key)
           /\ cache' = [k \in DOMAIN cache \cup {key} |-> IF k = key THEN key ELSE cache[k]]
  <2> DEFINE new == {key} \X (1 .. byte_size(key))
  <2>1. \A k \in DOMAIN cache' : cache'[k] = k
    BY <1>2 DEF CacheInv
  <2>2. Stored' = Stored \cup new
    <3>1. Stored' = UNION {{k} \X (1 .. byte_size(k)) : k \in DOMAIN cache'}
      BY <2>1 DEF Stored
    <3>2. Stored = UNION {{k} \X (1 .. byte_size(k)) : k \in DOMAIN cache}
      BY DEF Stored, CacheInv
    <3> QED BY <1>2, <3>1, <3>2
  <2>3. Stored \cap new = {}
    BY DEF Stored
  <2>4. IsFiniteSet(new) /\ Cardinality(new) = byte_size(key)
    <3>1. IsFiniteSet({key}) /\ Cardinality({key}) = 1
      BY FS_Singleton
    <3>2. IsFiniteSet(1 .. byte_size(key)) /\ Cardinality(1 .. byte_size(key)) = byte_size(key)
      BY FS_Interval
    <3>3. IsFiniteSet(new) /\ Cardinality(new) = 1 * byte_size(key)
      <4> HIDE DEF new
      <4>1. new = {key} \X (1 .. byte_size(key))
        BY DEF new
      <4> QED BY <3>1, <3>2, <4>1, FS_Product
    <3> QED BY <3>3
  <2>5. IsFiniteSet(Stored) /\ bytes = Cardinality(Stored)
    BY DEF CacheInv, CacheAccounts, Stored
  <2> HIDE DEF new
  <2>6. IsFiniteSet(Stored') /\ bytes' = Cardinality(Stored')
    <3>1. IsFiniteSet(Stored') /\
          Cardinality(Stored') = Cardinality(Stored) + Cardinality(new) - Cardinality(Stored \cap new)
      BY <2>2, <2>4, <2>5, FS_Union
    <3>2. Cardinality(Stored \cap new) = 0
      BY <2>3, FS_EmptySet
    <3> QED BY <1>2, <2>4, <2>5, <3>1, <3>2
  <2> QED BY <1>2, <2>1, <2>6 DEF CacheInv, CacheAccounts, Stored
<1> QED BY <1>1, <1>2 DEF insert

LEMMA CacheKept ==
  Progress /\ CacheInv /\ bytes \in Nat /\ [RasterStep]_rasterVars => CacheInv' /\ bytes' \in Nat
<1> SUFFICES ASSUME Progress, CacheInv, bytes \in Nat, [RasterStep]_rasterVars
             PROVE  CacheInv' /\ bytes' \in Nat
  OBVIOUS
<1>1. CASE UNCHANGED <<cache, bytes>>
  BY <1>1 DEF CacheInv, CacheAccounts, Stored
<1>2. CASE draw_glyph
  <2> DEFINE run == list[at].run
             g   == run.glyphs[glyph]
             key == glyph_key(run, g)
  <2>1. render(run, g) = key /\ byte_size(key) = run.size
    BY DEF glyph_key, render, byte_size
  <2>2. run.size \in Nat
    BY <1>2, CanvasAssumption DEF draw_glyph, Progress, Drawing
  <2>3. \/ UNCHANGED <<cache, bytes>>
        \/ key \notin DOMAIN cache /\ insert(key, key)
    BY <1>2, <2>1 DEF draw_glyph
  <2> QED BY <1>1, <2>1, <2>2, <2>3, StoreMask
<1> QED BY <1>1, <1>2
  DEF RasterStep, check_list, draw_rect, draw_border, begin_run, push, pop, rasterVars

LEMMA RasterInvariance == RasterSpec => [](ClipInv /\ CacheInv /\ bytes \in Nat)
<1>1. Ready /\ list \in Seq(DisplayItem) => ClipInv /\ CacheInv /\ bytes \in Nat
  <2> SUFFICES ASSUME Ready, list \in Seq(DisplayItem)
               PROVE  CacheInv /\ bytes \in Nat
    BY InitClips
  <2>1. cache = <<>> /\ bytes = 0
    BY DEF Ready
  <2>2. DOMAIN cache = {}
    BY <2>1
  <2>3. Stored = {}
    BY <2>2 DEF Stored
  <2>4. IsFiniteSet(Stored) /\ bytes = Cardinality(Stored)
    BY <2>1, <2>3, FS_EmptySet
  <2>5. \A key \in DOMAIN cache : cache[key] = key
    BY <2>2
  <2> QED BY <2>1, <2>4, <2>5, CanvasAssumption DEF CacheInv, CacheAccounts, Stored
<1>2. ClipInv /\ CacheInv /\ bytes \in Nat /\ [RasterStep]_rasterVars
        => (ClipInv /\ CacheInv /\ bytes \in Nat)'
  BY ClipsKept, CacheKept DEF ClipInv
<1> QED BY <1>1, <1>2, PTL DEF RasterSpec

(* The cache never holds more than its budget, and never counts a mask it  *)
(* does not hold, for every sequence of runs of every size.                *)
THEOREM CacheIsAccounted == RasterSpec => []CacheAccounts
<1>1. CacheInv => CacheAccounts
  BY DEF CacheInv
<1> QED BY <1>1, RasterInvariance, PTL
-----------------------------------------------------------------------------
\* Whole pixels and the positions inside them.
LEMMA PixelBounds ==
  ASSUME NEW a \in Int
  PROVE  /\ floor_px(a) \in Int /\ floor_px(a) * AU_PER_PX <= a
         /\ ceil_px(a) \in Int /\ a <= ceil_px(a) * AU_PER_PX
<1> DEFINE q == a \div AU_PER_PX
           m == a % AU_PER_PX
<1>1. q \in Int /\ m \in 0 .. AU_PER_PX - 1 /\ a = AU_PER_PX * q + m
  BY CanvasAssumption
<1>2. AU_PER_PX \in Nat \ {0}
  BY CanvasAssumption
<1>3. floor_px(a) = q /\ ceil_px(a) = IF m = 0 THEN q ELSE q + 1
  BY DEF floor_px, ceil_px
<1> HIDE DEF q, m
<1>4. q * AU_PER_PX <= a /\ a <= (q + 1) * AU_PER_PX /\ (m = 0 => a <= q * AU_PER_PX)
  BY <1>1, <1>2
<1> QED BY <1>1, <1>3, <1>4

\* The positions of pixel px.
Within(px) == px * AU_PER_PX .. (px + 1) * AU_PER_PX - 1

(* What fill shows of a rectangle lies under the clip it was given.        *)
LEMMA FilledUnderClip ==
  ASSUME NEW r \in Rect, NEW clip \in Rect, clip.origin >= 0, NEW px \in fill(r, clip)
  PROVE  \E p \in Within(px) : p \in Au /\ Covers(clip, p)
<1> DEFINE seen == intersect(r, clip)
           half == AU_PER_PX \div 2
           p    == px * AU_PER_PX + half
<1>1. seen = intersect(clip, r)
  BY FarEdgeIsAu DEF intersect, Larger, Smaller, Au
<1>2. seen \in Rect /\ \A x \in Int : Covers(seen, x) => Covers(clip, x)
  BY <1>1, IntersectionIsExact
<1>3. px \in Int /\ 2 * seen.origin <= (2 * px + 1) * AU_PER_PX
                /\ (2 * px + 1) * AU_PER_PX < 2 * far_edge(seen)
  BY CanvasAssumption DEF fill, Filled, Pixels
<1>4. AU_PER_PX \in Nat \ {0} /\ half \in Nat /\ AU_PER_PX \in {2 * half, 2 * half + 1}
  BY CanvasAssumption
<1>5. seen.origin \in Au /\ far_edge(seen) \in Au
  BY <1>2, FarEdgeIsAu
<1> HIDE DEF seen, half
<1> SUFFICES ASSUME NEW q \in Int, q = px * AU_PER_PX
             PROVE  \E x \in Within(px) : x \in Au /\ Covers(clip, x)
  BY <1>3, <1>4
<1>6. (2 * px + 1) * AU_PER_PX = 2 * q + AU_PER_PX /\ (px + 1) * AU_PER_PX = q + AU_PER_PX
  BY <1>3, <1>4
<1>7. p = q + half /\ p \in Int /\ p \in Within(px)
  BY <1>4, <1>6 DEF Within
<1>8. seen.origin <= p /\ p < far_edge(seen)
  BY <1>3, <1>4, <1>5, <1>6, <1>7 DEF Au
<1>9. p \in Au /\ Covers(seen, p)
  BY <1>5, <1>7, <1>8, WidthAssumption DEF Covers, Au
<1> QED BY <1>2, <1>7, <1>9

(* A pixel wholly under a clip.                                            *)
LEMMA WholeUnderClip ==
  ASSUME NEW clip \in Rect, NEW px \in pixel_clip(clip)
  PROVE  \E p \in Within(px) : p \in Au /\ Covers(clip, p)
<1> DEFINE p == px * AU_PER_PX
           near == ceil_px(clip.origin)
           far  == floor_px(far_edge(clip))
<1>1. clip.origin \in Au /\ far_edge(clip) \in Au
  BY FarEdgeIsAu
<1>2. /\ near \in Int /\ clip.origin <= near * AU_PER_PX
      /\ far \in Int /\ far * AU_PER_PX <= far_edge(clip)
  BY <1>1, PixelBounds DEF Au
<1>3. px \in Int /\ near <= px /\ px + 1 <= far
  BY <1>2 DEF pixel_clip
<1>4. AU_PER_PX \in Nat \ {0}
  BY CanvasAssumption
<1> HIDE DEF near, far
<1>5. \A x, y \in Int : x <= y => x * AU_PER_PX <= y * AU_PER_PX
  BY <1>4
<1>6. near * AU_PER_PX <= p /\ (px + 1) * AU_PER_PX <= far * AU_PER_PX
  BY <1>2, <1>3, <1>5
<1>7. (px + 1) * AU_PER_PX = p + AU_PER_PX /\ p \in Int /\ far * AU_PER_PX \in Int
      /\ near * AU_PER_PX \in Int
  BY <1>2, <1>3, <1>4
<1> HIDE DEF p
<1>8. clip.origin <= p /\ p < far_edge(clip)
  BY <1>1, <1>2, <1>4, <1>6, <1>7 DEF Au
<1>9. p \in Within(px)
  BY <1>4, <1>7 DEF Within, p
<1>10. p \in Au /\ Covers(clip, p)
  BY <1>1, <1>7, <1>8, WidthAssumption DEF Covers, Au
<1> QED BY <1>9, <1>10

\* What is under the top of the stack is under every clip that is open.
LEMMA UnderEveryClip ==
  ASSUME ClipInv, verdict = "Ok", NEW p \in Au, Covers(clip_now, p)
  PROVE  \A j \in OpenAt(list, at) : Covers(list[j].rect, p)
<1>1. at \in Nat \ {0} /\ Len(clips) = depth(list, at) + 1
  BY DEF ClipInv, Progress, StackIsWhatIsOpen
<1>2. \A j \in OpenAt(list, at) : depth(list, j) < Len(clips) - 1
  BY <1>1, DepthStep, OpenIsBelow
<1>3. Level(Len(clips), p)
  BY DEF ClipInv, StackIsWhatIsOpen, clip_now
<1> QED BY <1>2, <1>3 DEF Level

LEMMA ClipNowIsRect ==
  ASSUME ClipInv, verdict = "Ok"
  PROVE  clip_now \in Rect /\ clip_now.origin >= 0
BY DEF ClipInv, StackIsWhatIsOpen, clip_now

(* The strips of a border are rectangles, whatever its widths.             *)
LEMMA StripsAreRects ==
  ASSUME NEW r \in Rect, NEW widths \in [1 .. 2 -> Au]
  PROVE  near_strip(r, widths) \in Rect /\ far_strip(r, widths) \in Rect
<1>1. \A w \in Au : strip_width(w, r) \in Au
  BY WidthAssumption DEF strip_width, Smaller, Larger, Rect, Au
<1>2. strip_width(widths[1], r) \in Au /\ strip_width(widths[2], r) \in Au
  BY <1>1
<1>3. \A a, b \in Au : saturating_sub(a, b) \in Au
  BY WidthAssumption DEF saturating_sub, clamp, Au
<1> QED BY <1>2, <1>3, FarEdgeIsAu DEF near_strip, far_strip, Rect

(* Nothing is drawn outside a clip that is open, and a cached mask is the  *)
(* one that would have been rendered: for every list, canvas and budget.   *)
THEOREM DrawsAreListed == RasterSpec => DrawsWhatIsListed
<1> DEFINE Meant(px) ==
      /\ \A j \in OpenAt(list, at) : \E p \in Within(px) : Covers(list[j].rect, p)
      /\ pixmap'[px].of = list[at].of
      /\ list[at].item = "Text" =>
           pixmap'[px].mask = render(list[at].run, list[at].run.glyphs[glyph])
<1>1. ASSUME ClipInv, verdict = "Ok", NEW px,
             \E p \in Within(px) : p \in Au /\ Covers(clip_now, p)
      PROVE  \A j \in OpenAt(list, at) : \E p \in Within(px) : Covers(list[j].rect, p)
  BY <1>1, UnderEveryClip
<1>2. ASSUME ClipInv, CacheInv, RasterStep, NEW px \in Pixels, pixmap'[px] # pixmap[px]
      PROVE  Meant(px)
  <2>1. CASE draw_rect
    <3>1. verdict = "Ok" /\ list[at] \in DisplayItem /\ list[at].item = "Rect"
      BY <1>2, <2>1 DEF draw_rect, Drawing, ClipInv, Progress
    <3>2. px \in fill(list[at].rect, clip_now) /\ pixmap'[px].of = list[at].of
      BY <1>2, <2>1 DEF draw_rect, Show, Painter
    <3>3. \E p \in Within(px) : p \in Au /\ Covers(clip_now, p)
      BY <1>2, <3>1, <3>2, ItemFields, ClipNowIsRect, FilledUnderClip
    <3> QED BY <1>1, <1>2, <3>1, <3>2, <3>3
  <2>2. CASE draw_border
    <3> DEFINE r == list[at].rect
               w == list[at].widths
    <3>1. verdict = "Ok" /\ list[at] \in DisplayItem /\ list[at].item = "Border"
      BY <1>2, <2>2 DEF draw_border, Drawing, ClipInv, Progress
    <3>2. px \in fill_border(r, w, clip_now) /\ pixmap'[px].of = list[at].of
      BY <1>2, <2>2 DEF draw_border, Show, Painter
    <3>3. near_strip(r, w) \in Rect /\ far_strip(r, w) \in Rect
      BY <3>1, ItemFields, StripsAreRects
    <3>4. \E p \in Within(px) : p \in Au /\ Covers(clip_now, p)
      BY <1>2, <3>1, <3>2, <3>3, ClipNowIsRect, FilledUnderClip DEF fill_border
    <3> QED BY <1>1, <1>2, <3>1, <3>2, <3>4
  <2>3. CASE draw_glyph
    <3> DEFINE run == list[at].run
               g   == run.glyphs[glyph]
    <3>1. verdict = "Ok"
      BY <2>3 DEF draw_glyph, Drawing
    <3>2. /\ px \in pixel_clip(clip_now)
          /\ pixmap'[px] = Painter(list[at].of, "text", mask_for(run, g))
      BY <1>2, <2>3 DEF draw_glyph, blit, Show
    <3>3. mask_for(run, g) = render(run, g)
      BY <1>2 DEF CacheInv, mask_for, glyph_key, render
    <3>4. \E p \in Within(px) : p \in Au /\ Covers(clip_now, p)
      BY <1>2, <3>1, <3>2, ClipNowIsRect, WholeUnderClip
    <3> QED BY <1>1, <1>2, <3>1, <3>2, <3>3, <3>4 DEF Painter
  <2> QED
    BY <1>2, <2>1, <2>2, <2>3 DEF RasterStep, check_list, begin_run, push, pop
<1>3. ClipInv /\ CacheInv /\ [RasterStep]_rasterVars
        => [\A px \in Pixels : pixmap'[px] # pixmap[px] => Meant(px)]_rasterVars
  BY <1>2
<1> QED BY <1>3, RasterInvariance, PTL DEF RasterSpec, DrawsWhatIsListed, Within
===============================================================================
