------------------------------- MODULE MCRaster -------------------------------
(***************************************************************************)
(* Any list of a few items, from any sender: rectangles in, across, beside *)
(* and beyond the canvas, clips that overlap or miss each other, pops with *)
(* and without a push, runs of a bundled and of an unknown font.           *)
(***************************************************************************)
EXTENDS Raster

CONSTANTS MaxLength  \* items in a list

Span(from, to) == [origin |-> from, size |-> to - from]
Run(font, size, origin, glyphs) ==
  [font |-> font, size |-> size, origin |-> origin, opaque |-> TRUE, glyphs |-> glyphs]
Glyph(id, x) == [id |-> id, x |-> x]

Sides  == <<1, 1>>
Across == [origin |-> -3, size |-> 5]
Beyond == [origin |-> 3, size |-> MaxAu]    \* its far edge overflows

Items ==
  {RectItem(1, r)          : r \in {Span(0, 4), Across, Span(5, 5), Span(12, 14), Beyond}}
  \cup {BorderItem(2, r, Sides) : r \in {Span(1, 6), Span(2, 2)}}
  \cup {PushClip(3, r)     : r \in {Span(0, 3), Span(3, 6), Across, Span(10, 10)}}
  \cup {PopClip}
  \cup {TextItem(4, run)   : run \in {Run("known", 1, 0, <<Glyph("a", 0), Glyph("a", 2)>>),
                                      Run("known", 2, 2, <<Glyph("a", 1), Glyph("b", 2)>>),
                                      Run("known", 3, 2, <<Glyph("a", 0)>>),
                                      Run("other", 1, 0, <<Glyph("a", 0)>>)}}

\* And one list that is too long.
AnyList == \/ \E n \in 0 .. MaxLength : list \in [1 .. n -> Items]
           \/ list = [i \in 1 .. MAX_ITEMS + 1 |-> RectItem(1, Span(0, 4))]

MCInit == Ready /\ AnyList
MCSpec == MCInit /\ [][RasterStep]_rasterVars
===============================================================================
