\* One retry, streams of two chunks.
SPECIFICATION Spec
CONSTANTS
  Calls <- Both
  Sends <- AnySend
  Service <- Runtime
  ServerKnows <- Known
  Declared <- Methods
  Streams <- Watching
  Own <- Written
  Members <- Taken
  MaxRetries = 1
  MaxChunks = 2
INVARIANTS HandlersAreEntitled EveryCallIsWoundUp AnswersAreSound
\* Every call ends.
CHECK_DEADLOCK FALSE
