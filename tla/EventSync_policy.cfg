SPECIFICATION SyncSpec
CONSTANTS
  Entities = {"event"}
  Known <- OneEvent
  Bases <- AllContents
  NoBase = none
  MaxWrites = 3
  MaxResets = 0
  StorageFails = FALSE
  LateReplies = FALSE
  Recreations = 1
  Fields = {"description", "tags"}
  MaxOthers = 2
  CanCreate = TRUE
  LostAnswers = FALSE
  Racing = FALSE
  Reverts = FALSE
  HeldForms = FALSE
INVARIANTS EditsArrive
CHECK_DEADLOCK FALSE
