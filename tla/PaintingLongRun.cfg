\* As PaintingPages, with a glyph farther from its origin than the margin.
CONSTANTS
  MaxAu = 30
  MAX_ITEMS = 20
  MAX_GLYPHS_PER_RUN = 1
  MAX_CLIP_DEPTH = 3
  OFFSCREEN_MARGIN = 4
  ViewportSize = 4
  AU_PER_PX = 2
  Width = 2
  Fonts = {"known"}
  MAX_GLYPH_PX = 2
  MAX_CACHE_BYTES = 4
  Offsets = {6}
  Size = 3
  TextOnly = TRUE
  Trees <- PagesOnly
SPECIFICATION Spec
INVARIANTS
  PixelsAsMeant
CHECK_DEADLOCK FALSE
