\* The document and three more nodes: a parent with two children, text merged before and
\* after the arena fills up, one kept error of two, an attribute with two values.
CONSTANTS
  MaxNodes = 4
  None = None
  MaxText = 2
  MaxErrors = 1
  MaxReports = 2
  Attrs = {a}
  Values = {v1, v2}
  Modes = {"Quirks"}
SPECIFICATION Spec
INVARIANTS
  TreeWellFormed
  FosteredNodeLands
PROPERTIES
  DeliveryMakesNoAdjacentText
  TextLands
  FirstAttributeWins
CONSTRAINT DataOrTree
CHECK_DEADLOCK FALSE
