SPECIFICATION FairSyncSpec
CONSTANTS
  Entities = {"event"}
  Known <- OneEvent
  Bases <- AllContents
  NoBase = none
  MaxWrites = 2
  MaxResets = 0
  StorageFails = FALSE
  LateReplies = FALSE
  Recreations = 2
  Fields = {"description", "tags"}
  MaxOthers = 2
  CanCreate = TRUE
  LostAnswers = TRUE
  Racing = TRUE
  Reverts = FALSE
  HeldForms = TRUE
PROPERTIES Drains
CHECK_DEADLOCK FALSE
