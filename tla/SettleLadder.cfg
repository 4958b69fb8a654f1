\* One streaming request, one retry, two faults of any kind.
SPECIFICATION Spec
CONSTANTS
  m1 = m1
  m2 = m2
  s1 = s1
  s2 = s2
  NoCopy = NoCopy
  Msgs <- MCStream
  Callers <- MCStream
  Streams <- MCStream
  Slots <- MCSlots
  MaxRetries = 1
  Prefetch = 2
  LateAck = TRUE
  ProducerCancels = FALSE
  MaxCopies = 3
  MaxFaults = 2
SYMMETRY MCSymmetry
INVARIANTS TypeOK NoLoss SettledForAReason NoStuckDelivery RerunHasCause ErrorIsFinal
\* The queue empties and the consumer waits: that is not a deadlock.
CHECK_DEADLOCK FALSE
