\* A canvas of three pixels, two units each; a cache that holds two or three masks.
CONSTANTS
  MaxAu = 40
  MAX_ITEMS = 5
  MAX_GLYPHS_PER_RUN = 2
  MAX_CLIP_DEPTH = 2
  OFFSCREEN_MARGIN = 4
  AU_PER_PX = 2
  Width = 3
  Fonts = {"known"}
  MAX_GLYPH_PX = 2
  MAX_CACHE_BYTES = 3
  MaxLength = 5
SPECIFICATION MCSpec
INVARIANTS
  ClipIsWhatIsOpen
  CacheAccounts
PROPERTY DrawsWhatIsListed
CHECK_DEADLOCK FALSE
