SPECIFICATION Spec
CONSTANTS
  Workers = {w1, w2}
  Pins = {1, 2}
  MaxPinTries = 2
  MaxCodeAttempts = 2
  MaxChallenges = 3
  MaxCodes = 3
  Mixes <- Halves
SYMMETRY Alike
INVARIANTS TypeOK LockHolds SpentChallengeRefused CodeRedeemedOnce GuessesBounded MailedCodeWorks NothingLeftBehind
CHECK_DEADLOCK FALSE
