------------------------------- MODULE Painting -------------------------------
(***************************************************************************)
(* build and rasterize together, as cl_testshell's render joins them: the  *)
(* list the builder makes is the list the rasteriser draws, on a canvas of *)
(* the size of the viewport.                                               *)
(***************************************************************************)
EXTENDS PaintBuild

CONSTANTS AU_PER_PX, Width, Fonts, MAX_GLYPH_PX, MAX_CACHE_BYTES

ASSUME ViewportAssumption == ViewportSize = Width * AU_PER_PX

VARIABLES verdict, at, glyph, clips, pixmap, cache, bytes

R == INSTANCE Raster WITH list <- items

drawVars == <<verdict, at, glyph, clips, pixmap, cache, bytes>>
vars     == <<buildVars, drawVars>>

Init == BuildInit /\ R!Ready

Building   == Walk /\ UNCHANGED drawVars
Rasterizing == built /\ R!RasterStep /\ UNCHANGED <<tree, canvas, stack, remaining, built>>

\* A walk that was entered goes on.
Spec == Init /\ [][Building \/ Rasterizing]_vars /\ WF_vars(Building)

-----------------------------------------------------------------------------
(* What a page should look like, without lists, culling or a clip stack:   *)
(* everything there is to draw, back to front, each thing with the pixels  *)
(* it would cover if nothing were hidden.                                  *)
CanvasSource(t) ==
  LET Painted(local) == {n \in DOMAIN t.fragments : /\ t.fragments[n].element = local
                                                   /\ t.fragments[n].background}
      Sources == IF Painted("html") # {} THEN Painted("html") ELSE Painted("body")
  IN  IF Sources = {} THEN 0 ELSE Min(Sources)

LayersOf(t, id) ==
  LET f == t.fragments[id]
  IN  (IF f.kind = "Block" /\ f.background /\ id # CanvasSource(t)
       THEN <<[painter |-> R!Painter(id, "box", <<>>), glyph |-> FALSE,
               covers |-> R!Filled(f.border_box)]>> ELSE <<>>)
      \o (IF f.kind = "Block"
          THEN <<[painter |-> R!Painter(id, "border", <<>>), glyph |-> FALSE,
                  covers |-> UNION {R!Filled(R!near_strip(f.border_box, solid_border_widths(f))),
                                    R!Filled(R!far_strip(f.border_box, solid_border_widths(f)))}]>>
          ELSE <<>>)
      \o FlattenSeq([r \in DOMAIN f.runs |->
           [g \in DOMAIN f.runs[r].glyphs |->
             [painter |-> R!Painter(id, "text", R!render(f.runs[r], f.runs[r].glyphs[g])),
              glyph   |-> TRUE,
              covers  |-> {R!round_px(f.runs[r].origin + f.runs[r].glyphs[g].x)}]]])

Layers(t) ==
  LET order == survey(t).seen
  IN  FlattenSeq([i \in DOMAIN order |-> LayersOf(t, order[i])])

\* A box shows where a pixel's centre is in the padding box of every hidden
\* ancestor, a glyph where the whole pixel is.
CentreInside(px, r) == px \in R!Filled(r)
PixelInside(px, r)  == r.origin <= px * AU_PER_PX /\ (px + 1) * AU_PER_PX <= far_edge(r)
Unclipped(t, layer, px) ==
  \A a \in HiddenAncestors(t, layer.painter.of) :
    LET padding_box == inset(t.fragments[a].border_box, t.fragments[a].border)
    IN  IF layer.glyph THEN PixelInside(px, padding_box) ELSE CentreInside(px, padding_box)

Background(t) ==
  IF CanvasSource(t) = 0 THEN R!White ELSE R!Painter(CanvasSource(t), "box", <<>>)

Meant(t, px) ==
  LET layers == Layers(t)
      Shown  == {i \in DOMAIN layers : px \in layers[i].covers /\ Unclipped(t, layers[i], px)}
  IN  IF Shown = {} THEN Background(t) ELSE layers[Max(Shown)].painter

(* The rasteriser takes every list the builder makes: the two agree on how *)
(* far outside the canvas an item may lie, the clips that were clamped to  *)
(* nothing included.                                                       *)
BuiltListValidates == verdict \in {"none", "Ok"}

(* Every pixel of the finished canvas shows the last thing in document     *)
(* order that covers it and is not hidden by an ancestor's overflow:       *)
(* culling drops only what nothing can see, and clamping a clip to the     *)
(* region moves none of its visible edges (build.rs, "Culling may only     *)
(* ever drop what nothing can see").                                       *)
PixelsAsMeant ==
  built /\ IsLaidOut(tree) /\ verdict = "Ok" /\ R!Returned => \A px \in R!Pixels : pixmap[px] = Meant(tree, px)
===============================================================================
