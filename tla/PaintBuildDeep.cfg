\* As PaintingPages without the pages, with one clip fewer allowed than there are fragments.
CONSTANTS
  MaxAu = 100
  MAX_ITEMS = 20
  MAX_GLYPHS_PER_RUN = 2
  MAX_CLIP_DEPTH = 2
  OFFSCREEN_MARGIN = 4
  ViewportSize = 4
  Size = 3
  Trees <- AnyTreesOnly
SPECIFICATION BuildSpec
INVARIANTS
  ClipCheckPasses
CHECK_DEADLOCK FALSE
