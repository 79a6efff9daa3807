\* Two workers, two services; main sends twice, a handler once.
SPECIFICATION FairSpec
CONSTANTS
  Services = {s1, s2}
  w1 = w1
  w2 = w2
  Workers = {w1, w2}
  Others = {main}
  EachNum <- MCEachNum
  MaxSends <- Sends2and10
  NoThread = NoThread
  NoService = NoService
INVARIANTS IInv NoStrandedMessage
PROPERTIES ImplementsMailboxes MessagesAreHandled PushWakesPool SendReturns
