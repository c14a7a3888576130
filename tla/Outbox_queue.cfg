SPECIFICATION Spec
CONSTANTS
  Entities <- AllEntities
  Known <- KnownEvent
  Bases = {b1, b2}
  NoBase = none
  MaxWrites = 3
  MaxResets = 1
  StorageFails = FALSE
  Recreations = 0
  LateReplies = FALSE
INVARIANTS TypeOK DependencyOrder TempIdsNameOneCreation SentIsQueued OneBase TargetsFollow
PROPERTIES DropCascades
SYMMETRY BaseSymmetry
CHECK_DEADLOCK FALSE
