\* Two pixels of two units; the margin reaches from -4 to 8.
CONSTANTS
  MaxAu = 30
  MAX_ITEMS = 20
  MAX_GLYPHS_PER_RUN = 1
  MAX_CLIP_DEPTH = 3
  OFFSCREEN_MARGIN = 4
  ViewportSize = 4
  AU_PER_PX = 2
  Width = 2
  Fonts = {"known"}
  MAX_GLYPH_PX = 2
  MAX_CACHE_BYTES = 4
  Offsets = {0, 2, 3}
  Size = 3
  TextOnly = FALSE
  Trees <- PagesAndAnyTrees
SPECIFICATION Spec
INVARIANTS
  ClipsBalance
  ClipScope
  BuiltListValidates
  PixelsAsMeant
PROPERTY BuildReturns
CHECK_DEADLOCK FALSE
