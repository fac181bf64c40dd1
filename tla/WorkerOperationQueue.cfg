SPECIFICATION Spec
CONSTANTS
  WorkerCount = 2
  MaxOutstanding = 3
  MaxSequence = 4
  MaxProgress = 1
INVARIANTS
  TypeOK
  NoRequestLost
  DeliveredInOrder
PROPERTIES
  FirstResultStays
  AnswersInLine
  AnsweredWhilePoolLives
CHECK_DEADLOCK FALSE
