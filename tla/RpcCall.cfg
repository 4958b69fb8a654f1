\* One call over three sockets.
SPECIFICATION FairSpec
CONSTANTS
  MaxGenerations = 3
  ReadyHolds = FALSE
INVARIANTS ErrorsAreTruthful OneCopyOnTheWire
PROPERTIES AnswerWins CallEnds
\* A call that ended rests.
CHECK_DEADLOCK FALSE
