CONSTANTS
  s1 = s1
  Names = {s1}
  MaxRings = 2
  MaxUpheavals = 2
SPECIFICATION Spec
INVARIANTS OwedAsksForAttention NoIdleAlarm OncePerRing
PROPERTY FlagIsCounted
CHECK_DEADLOCK FALSE
