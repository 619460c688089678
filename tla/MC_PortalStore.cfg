\* Anything may happen. Editing stops at MaxEdits: no deadlock check.
SPECIFICATION FairSpec
CONSTANTS
  MaxEdits = 4
CHECK_DEADLOCK FALSE
INVARIANTS
  Safety
  NothingForgotten
PROPERTIES
  NoRollback
  EditsSaved
