SPECIFICATION FairSpec
CONSTANTS
  Entities <- EventsAndTags
  Known <- KnownEvent
  Bases = {1}
  NoBase = none
  MaxWrites = 2
  MaxResets = 1
  StorageFails = TRUE
  Recreations = 0
  LateReplies = TRUE
PROPERTIES Delivered
CHECK_DEADLOCK FALSE
