-------------------------------- MODULE Raster --------------------------------
(***************************************************************************)
(* rasterize of crates/gfx: a display list, from whatever source, is       *)
(* validated and then drawn item by item under a stack of clips; glyphs    *)
(* come from a cache with a byte budget.                                   *)
(*                                                                         *)
(* The canvas is one row of pixels.  A pixel holds the last thing drawn on *)
(* it (colours are opaque); a glyph mask is one pixel, at its pen.         *)
(***************************************************************************)
EXTENDS DisplayList

CONSTANTS
  AU_PER_PX,
  Width,            \* canvas, in pixels
  Fonts,            \* font keys in the FontDb
  MAX_GLYPH_PX, MAX_CACHE_BYTES

ASSUME CanvasAssumption ==
  /\ AU_PER_PX \in Nat \ {0} /\ Width \in Nat \ {0} /\ Width * AU_PER_PX <= MaxAu
  /\ MAX_CACHE_BYTES \in Nat /\ MAX_GLYPH_PX \in Nat

VARIABLES
  list,    \* the display list
  verdict, \* "none" until validated, then Ok or the error returned
  at,      \* the item to draw next
  glyph,   \* the glyph of that item's run to draw next, 0 before the first
  clips,   \* the clip stack, the canvas at the bottom
  pixmap,  \* what each pixel shows
  cache,   \* GlyphCache::map
  bytes    \* GlyphCache::bytes

rasterVars == <<list, verdict, at, glyph, clips, pixmap, cache, bytes>>

Pixels == 0 .. Width - 1
Canvas == [origin |-> 0, size |-> Width * AU_PER_PX]

Painter(of, layer, mask) == [of |-> of, layer |-> layer, mask |-> mask]
White == Painter(0, "white", <<>>)

(* The state before validate; the composing module says which list.        *)
Ready ==
  /\ verdict = "none" /\ at = 1 /\ glyph = 0
  /\ clips = <<Canvas>>
  /\ pixmap = [px \in Pixels |-> White]
  /\ cache = <<>> /\ bytes = 0

-----------------------------------------------------------------------------
\* Whole pixels at or below, at or above, and nearest to a position.
floor_px(a) == a \div AU_PER_PX
ceil_px(a)  == IF a % AU_PER_PX = 0 THEN floor_px(a) ELSE floor_px(a) + 1
round_px(a) == IF (a % AU_PER_PX) * 2 >= AU_PER_PX THEN floor_px(a) + 1 ELSE floor_px(a)

\* The pixels wholly inside a clip, which is where glyphs may be drawn.
pixel_clip(clip) == ceil_px(clip.origin) .. (floor_px(far_edge(clip)) - 1)

\* tiny-skia without anti-aliasing: the pixels whose centre is inside.
Filled(r) == {px \in Pixels : /\ 2 * r.origin <= (2 * px + 1) * AU_PER_PX
                              /\ (2 * px + 1) * AU_PER_PX < 2 * far_edge(r)}

Show(painter, where) ==
  pixmap' = [px \in Pixels |-> IF px \in where THEN painter ELSE pixmap[px]]

\* fill: where a rectangle shows under a clip.
fill(r, clip) == LET seen == intersect(r, clip) IN IF is_empty(seen) THEN {} ELSE Filled(seen)

\* fill_border: the strips along the two sides of this axis.
strip_width(w, r) == Smaller(Larger(w, 0), Larger(r.size, 0))
near_strip(r, widths) == [origin |-> r.origin, size |-> strip_width(widths[1], r)]
far_strip(r, widths) ==
  [origin |-> saturating_sub(far_edge(r), strip_width(widths[2], r)),
   size   |-> strip_width(widths[2], r)]
fill_border(r, widths, clip) ==
  fill(near_strip(r, widths), clip) \cup fill(far_strip(r, widths), clip)

-----------------------------------------------------------------------------
(* Glyphs.  swash makes a mask from a face, a glyph and a size; a larger   *)
(* glyph has a larger mask.                                                *)
render(run, g)  == <<run.font, g.id, run.size>>
byte_size(mask) == mask[3]

\* Mutant of glyph_key: the size is left out.
glyph_key_any_size(run, g) == <<run.font, g.id, 0>>

glyph_key(run, g) == <<run.font, g.id, run.size>>

\* Mutant of insert: the budget is tested before the cost is added.
insert_overrun(key, mask) ==
  IF bytes <= MAX_CACHE_BYTES
  THEN /\ bytes' = bytes + byte_size(mask)
       /\ cache' = [k \in DOMAIN cache \cup {key} |-> IF k = key THEN mask ELSE cache[k]]
  ELSE UNCHANGED <<bytes, cache>>

\* Mutant of insert: what is stored is not charged to the budget.
insert_uncharged(key, mask) ==
  IF bytes + byte_size(mask) <= MAX_CACHE_BYTES
  THEN /\ cache' = [k \in DOMAIN cache \cup {key} |-> IF k = key THEN mask ELSE cache[k]]
       /\ UNCHANGED bytes
  ELSE UNCHANGED <<bytes, cache>>

(* GlyphCache::insert: past the budget nothing more is stored.             *)
insert(key, mask) ==
  IF bytes + byte_size(mask) <= MAX_CACHE_BYTES
  THEN /\ bytes' = bytes + byte_size(mask)
       /\ cache' = [k \in DOMAIN cache \cup {key} |-> IF k = key THEN mask ELSE cache[k]]
  ELSE UNCHANGED <<bytes, cache>>

mask_for(run, g) ==
  IF glyph_key(run, g) \in DOMAIN cache THEN cache[glyph_key(run, g)] ELSE render(run, g)

blit(item, g, clip) ==
  LET pen == round_px(saturating_add(item.run.origin, g.x))
  IN  Show(Painter(item.of, "text", mask_for(item.run, g)),
           {pen} \cap pixel_clip(clip) \cap Pixels)

\* Runs that draw nothing; the font is looked up before this is asked.
nothing_to_draw(run, clip) ==
  \/ run.glyphs = <<>> \/ ~ run.opaque
  \/ pixel_clip(clip) = {}
  \/ run.size \notin 1 .. MAX_GLYPH_PX

-----------------------------------------------------------------------------
check_list ==
  /\ verdict = "none"
  /\ verdict' = validate(list, Canvas)
  /\ UNCHANGED <<list, at, glyph, clips, pixmap, cache, bytes>>

Drawing(kind) == verdict = "Ok" /\ at <= Len(list) /\ list[at].item = kind
Returned      == verdict \notin {"none", "Ok"} \/ (verdict = "Ok" /\ at > Len(list))
clip_now      == clips[Len(clips)]

draw_rect ==
  /\ Drawing("Rect")
  /\ Show(Painter(list[at].of, "box", <<>>), fill(list[at].rect, clip_now))
  /\ at' = at + 1
  /\ UNCHANGED <<list, verdict, glyph, clips, cache, bytes>>

draw_border ==
  /\ Drawing("Border")
  /\ Show(Painter(list[at].of, "border", <<>>),
          fill_border(list[at].rect, list[at].widths, clip_now))
  /\ at' = at + 1
  /\ UNCHANGED <<list, verdict, glyph, clips, cache, bytes>>

begin_run ==
  /\ Drawing("Text") /\ glyph = 0
  /\ \/ /\ list[at].run.font \notin Fonts
        /\ verdict' = "FontNotBundled"
        /\ UNCHANGED <<at, glyph>>
     \/ /\ list[at].run.font \in Fonts
        /\ IF nothing_to_draw(list[at].run, clip_now)
             THEN at' = at + 1 /\ glyph' = 0
             ELSE at' = at /\ glyph' = 1
        /\ verdict' = verdict
  /\ UNCHANGED <<list, clips, pixmap, cache, bytes>>

draw_glyph ==
  /\ Drawing("Text") /\ glyph > 0
  /\ LET run == list[at].run
         g   == run.glyphs[glyph]
     IN  /\ blit(list[at], g, clip_now)
         /\ IF glyph_key(run, g) \in DOMAIN cache
              THEN UNCHANGED <<cache, bytes>>
              ELSE insert(glyph_key(run, g), render(run, g))
         /\ IF glyph < Len(run.glyphs) THEN glyph' = glyph + 1 /\ at' = at
                                       ELSE glyph' = 0 /\ at' = at + 1
  /\ UNCHANGED <<list, verdict, clips>>

\* Mutant of push: the new clip replaces the one it is inside of.
push_alone ==
  /\ Drawing("PushClip")
  /\ clips' = Append(clips, list[at].rect)
  /\ at' = at + 1
  /\ UNCHANGED <<list, verdict, glyph, pixmap, cache, bytes>>

push ==
  /\ Drawing("PushClip")
  /\ clips' = Append(clips, intersect(clip_now, list[at].rect))
  /\ at' = at + 1
  /\ UNCHANGED <<list, verdict, glyph, pixmap, cache, bytes>>

pop ==
  /\ Drawing("PopClip")
  /\ clips' = IF Len(clips) > 1 THEN SubSeq(clips, 1, Len(clips) - 1) ELSE clips
  /\ at' = at + 1
  /\ UNCHANGED <<list, verdict, glyph, pixmap, cache, bytes>>

RasterStep == check_list \/ draw_rect \/ draw_border \/ begin_run \/ draw_glyph \/ push \/ pop

-----------------------------------------------------------------------------
(* The clip on top of the stack is the common part of the canvas and all   *)
(* the clips the list has open, and the canvas itself is never popped:     *)
(* validate has refused every list that could ("the stack can never be     *)
(* down to its canvas entry here").                                        *)
ClipIsWhatIsOpen ==
  /\ Drawing("PopClip") => Len(clips) > 1
  /\ verdict = "Ok" =>
    \A p \in 0 .. Width * AU_PER_PX - 1 :
      Covers(clip_now, p) <=> \A j \in OpenAt(list, at) : Covers(list[j].rect, p)

(* The budget counts exactly the masks that are stored: no more, or glyphs *)
(* would be refused early, and no less, or the cap would not hold; and it  *)
(* holds.                                                                  *)
CacheAccounts ==
  /\ bytes = Cardinality(UNION {{key} \X (1 .. byte_size(cache[key])) : key \in DOMAIN cache})
  /\ bytes <= MAX_CACHE_BYTES

(* A step draws only inside every open clip, and a glyph from the cache is *)
(* the one that was asked for: the budget changes no pixel.                *)
DrawsWhatIsListed ==
  [][\A px \in Pixels : pixmap'[px] # pixmap[px] =>
       /\ \A j \in OpenAt(list, at) :
            \E p \in px * AU_PER_PX .. (px + 1) * AU_PER_PX - 1 : Covers(list[j].rect, p)
       /\ pixmap'[px].of = list[at].of
       /\ list[at].item = "Text" =>
            pixmap'[px].mask = render(list[at].run, list[at].run.glyphs[glyph])]_rasterVars
===============================================================================
