\* A page of 20 by 30 units; every glyph is 3 wide, a line 2 high.
CONSTANTS
  MaxAu = 1000
  Advance = 3
  Viewport <- Screen
  Documents <- AllPages
SPECIFICATION Spec
INVARIANTS
  BoxesWellFormed
  TextIsDrawnOnce
  WordsStayApart
  FragmentsMirrorBoxes
  BoxesNest
  GapsAreCollapsedMargins
  SizesAsSpecified
PROPERTY LayoutReturns
CHECK_DEADLOCK FALSE
