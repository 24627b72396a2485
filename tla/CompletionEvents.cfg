CONSTANTS
  Calls = {c1, c2}
  Sizes <- MCSizes
  MaxBurst = 2
  MaxEvents = 2
  MaxBytes = 3
SPECIFICATION FairSpec
CHECK_DEADLOCK FALSE
INVARIANTS
  TypeOK
  WithinBudget
  DeliveredInOrder
  Accounted
  EventsBeforeReply
PROPERTIES
  EventsArrive
  AnswerEnds
  ChannelKept
