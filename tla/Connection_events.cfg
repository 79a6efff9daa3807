\* A peer that sends, half-closes, resets and reads; writes that are empty, fit or do not.
SPECIFICATION FairSpec
CONSTANTS
  BuffSize = 2
  SendBuffer = 1
  Lens = {0, 1, 2}
  Errnos = {"EAGAIN", "other"}
  MaxBytes = 3
  MaxObjs = 2
  MaxData = 3
  MayReset = TRUE
INVARIANT IInv
PROPERTIES ImplementsByteStream EndCloses CloseConnCloses WritesDrain
CHECK_DEADLOCK FALSE
