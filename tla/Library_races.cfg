SPECIFICATION Spec
CONSTANTS
  n1 = n1
  n2 = n2
  r1 = r1
  r2 = r2
  c1 = c1
  Names = {n1, n2}
  Typed <- TypedNames
  Periods <- SomePeriods
  ClientIds = {c1}
  DaysPerMonth = 2
  MonthsPerYear = 2
  MaxPeriodYears = 2
  Years = {0, 1}
  Workers = {r1, r2}
  MaxRequests = 3
  MaxPicked = 1
  Mixes <- Areas
  Starts <- Libraries
INVARIANTS LibraryTypeOK SynonymsFlat GroupsHoldMainTags RepliesAgree EventsFoundByDate OneMode
PROPERTIES FiltersSurvive UsageForetells
CHECK_DEADLOCK FALSE
