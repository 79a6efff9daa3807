\* Two services, two calls or sleeps, one plain message, a short and a long nap.
SPECIFICATION FairSpec
CONSTANTS
  Services = {s1, s2}
  Coroutines = {1, 2, 3}
  MaxSession = 2
  HalfRange = 2
  Naps = {0, 2}
  MaxYields = 2
  MaxSends = 1
  MaxDepth = 2
  NoService = NoService
ACTION_CONSTRAINT FirstUnused
INVARIANT IInv
PROPERTIES SleepsEnd CallsEnd
CHECK_DEADLOCK FALSE
