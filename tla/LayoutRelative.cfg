\* A page of 20 by 30 units; every glyph is 3 wide, a line 2 high.
CONSTANTS
  MaxAu = 1000
  Advance = 3
  Viewport <- Screen
  Documents <- RelativePages
SPECIFICATION Spec
INVARIANTS
  TextMovesWithItsBlock
CHECK_DEADLOCK FALSE
