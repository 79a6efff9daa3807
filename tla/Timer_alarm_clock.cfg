\* Three timers of 0 or 1 ms, two ticks to a millisecond.
SPECIFICATION FairSpec
CONSTANTS
  Calls = {c1, c2, c3}
  Delays = {0, 1}
  TicksPerMs = 2
  MaxNow = 4
  NoCall = NoCall
INVARIANT IInv
PROPERTIES ImplementsAlarmClock EveryTimerFires
