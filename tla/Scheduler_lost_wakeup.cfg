\* The lost wake-up: one service is enough.
SPECIFICATION FairSpec
CONSTANTS
  Services = {s1}
  w1 = w1
  w2 = w2
  Workers = {w1, w2}
  Others = {main}
  EachNum <- MCEachNum
  MaxSends <- Sends2and00
  NoThread = NoThread
  NoService = NoService
PROPERTY LaterSendWakes
