\* Liveness and the refinement of AtLeastOnce: no symmetry, one fault of any kind.
SPECIFICATION FairSpec
CONSTANTS
  m1 = m1
  m2 = m2
  s1 = s1
  s2 = s2
  NoCopy = NoCopy
  Msgs <- MCBoth
  Callers <- MCStream
  Streams <- MCStream
  Slots <- MCSlots
  MaxRetries = 1
  Prefetch = 1
  LateAck = TRUE
  ProducerCancels = FALSE
  MaxCopies = 4
  MaxFaults = 1
PROPERTIES EverySettled KeepsPromise
\* The queue empties and the consumer waits: that is not a deadlock.
CHECK_DEADLOCK FALSE
