\* Five nodes: the smallest arena in which a moved subtree has two levels and
\* its new place has neighbours on both sides.
CONSTANTS
  MaxNodes = 5
  None = None
SPECIFICATION Spec
INVARIANTS
  TypeOK
  ArenaWellFormed
  MoveStaysOutside
  IteratorsAgree
PROPERTIES
  ReparentTerminates
  RefinesForest
