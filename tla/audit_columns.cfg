\* A change of a column outside the hashed text is not seen.
CONSTANTS
  Texts = {before, after}
  Rests = {r1, r2}
  Writers = {w1}
  LastEvent = 2
  NoEvent = NoEvent
SPECIFICATION AuditSpec
INVARIANT TamperingDetected
CHECK_DEADLOCK FALSE
