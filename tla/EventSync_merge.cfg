SPECIFICATION SyncSpec
CONSTANTS
  Entities = {"event"}
  Known <- OneEvent
  Bases <- AllContents
  NoBase = none
  MaxWrites = 3
  MaxResets = 1
  StorageFails = FALSE
  LateReplies = FALSE
  Recreations = 1
  Fields = {"description", "tags"}
  MaxOthers = 2
  CanCreate = FALSE
  LostAnswers = TRUE
  Racing = FALSE
  Reverts = FALSE
  HeldForms = FALSE
PROPERTIES TheirsKept
INVARIANTS OneCopy
CHECK_DEADLOCK FALSE
