\* An early-acking consumer of two messages, two faults, producers that cancel themselves.
SPECIFICATION Spec
CONSTANTS
  m1 = m1
  m2 = m2
  s1 = s1
  s2 = s2
  NoCopy = NoCopy
  Msgs <- MCBoth
  Callers <- MCStream
  Streams <- MCStream
  Slots <- MCSlots
  MaxRetries = 1
  Prefetch = 2
  LateAck = FALSE
  ProducerCancels = TRUE
  MaxCopies = 3
  MaxFaults = 2
SYMMETRY MCSymmetry
INVARIANT EarlyAckRerunsOnlyAfterLoss
\* The queue empties and the consumer waits: that is not a deadlock.
CHECK_DEADLOCK FALSE
