SPECIFICATION SyncSpec
CONSTANTS
  Entities = {"event"}
  Known <- OneEvent
  Bases <- AllContents
  NoBase = none
  MaxWrites = 2
  MaxResets = 1
  StorageFails = FALSE
  LateReplies = FALSE
  Recreations = 1
  Fields = {"description", "tags"}
  MaxOthers = 2
  CanCreate = TRUE
  LostAnswers = TRUE
  Racing = FALSE
  Reverts = FALSE
  HeldForms = TRUE
PROPERTIES SyncsAsOutbox DeletesWhatWasSeen
INVARIANTS SyncTypeOK
CHECK_DEADLOCK FALSE
