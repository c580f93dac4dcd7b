\* A prescan looks at 30 symbols, a load returns at most 60.
CONSTANTS
  PRESCAN_LIMIT_BYTES = 30
  MAX_FILE_BYTES = 60
  Reads = {30, 61}
  MaxWrites = 1
  MaxRestyles = 1
  Labels <- KnownLabels
  UpperCase <- Capitals
  Rules <- AllRules
  Declarations <- AllDeclarations
  Urls <- References
  Rewrites <- Overwrites
  Pages <- AllPages
SPECIFICATION Spec
INVARIANTS
  PrescanFindsDeclared
  SheetsInDocumentOrder
  StylesAreTheCascade
  DumpShowsTheTree
PROPERTIES
  FilesComeUncut
  PageIsServed
